---- MODULE Spec2Model ----
(***************************************************************************)
(* Model of newapi-ai-check-in:                                            *)
(*   - checkin_qaq_al/checkin.py : count_leading_zero_bits, benchmark_hps, *)
(*     calculate_nonce and the CheckIn.execute protocol state machine      *)
(*   - checkin_qaq_al/main.py    : the account loop, the result digest and *)
(*     the notification gate                                               *)
(*   - utils/get_cdk.py          : the wheel (get_runawaytime_cdk) and the *)
(*     lucky-draw (get_b4u_cdk) harvest generators                         *)
(*                                                                         *)
(* Python values are encoded as follows.  None / a missing dict key is the *)
(* string "absent"; a value of the wrong type (null, number where a string *)
(* or a dict is expected) is the string "bad"; a dict is a record whose    *)
(* fields hold the value or "absent".  account_name "account_<k>" is the   *)
(* number k.                                                               *)
(***************************************************************************)
EXTENDS Integers, Sequences, FiniteSets, TLC

(***************************************************************************)
(* Bounds of the model                                                     *)
(***************************************************************************)
MaxAccounts == 2
MaxNonce == 3
MaxDifficulty == 13
MaxZeroBytes == 33
MaxRemaining == 2
MaxDraws == 3
MaxRuns == 2
MaxCount == 6
MaxTopic == 110
MaxPosts == 2

(***************************************************************************)
(* Program constants                                                       *)
(***************************************************************************)
BENCH_ROUNDS == 3
DEFAULT_TIER == 4
ZERO_BIT_CAP == 256
DIGEST_BYTES == 32

Absent == "absent"
Bad == "bad"

\* dict.get(key, default)
Get(v, default) == IF v = Absent THEN default ELSE v

Last(s) == s[Len(s)]

Range(s) == {s[k] : k \in DOMAIN s}

(***************************************************************************)
(* count_leading_zero_bits                                                 *)
(***************************************************************************)
\* variant: tests bit 6 instead of bit 7
HighBitClear_Mut(b) == (b \div 64) % 2 = 0

\* (b & 0x80) == 0 on an unbounded Python int
HighBitClear(b) == (b \div 128) % 2 = 0

\* the inner while loop: counts up while bit 7 of b is clear and count < 256
RECURSIVE ShiftLoop(_, _)
ShiftLoop(b, count) ==
    IF HighBitClear(b) /\ count < ZERO_BIT_CAP
    THEN ShiftLoop(b * 2, count + 1)
    ELSE count

\* the for loop over the bytes, from index k with the running count
RECURSIVE ByteLoop(_, _, _)
ByteLoop(hash_bytes, k, count) ==
    IF k > Len(hash_bytes) THEN count
    ELSE IF hash_bytes[k] = 0 THEN ByteLoop(hash_bytes, k + 1, count + 8)
    ELSE ShiftLoop(hash_bytes[k], count)

count_leading_zero_bits(hash_bytes) == ByteLoop(hash_bytes, 1, 0)

(***************************************************************************)
(* round() and statistics.median                                           *)
(***************************************************************************)
\* Python round(n / d) for n >= 0, d > 0: round half to even
RoundHalfEven(n, d) ==
    LET q == n \div d
        r == n % d
    IN  IF 2 * r < d THEN q
        ELSE IF 2 * r > d THEN q + 1
        ELSE IF q % 2 = 0 THEN q ELSE q + 1

\* hps = round(nonce / elapsed) if elapsed > 0 else 0
RateOf(count, elapsed) == IF elapsed > 0 THEN RoundHalfEven(count, elapsed) ELSE 0

RECURSIVE InsertSorted(_, _)
InsertSorted(s, x) ==
    IF s = <<>> THEN <<x>>
    ELSE IF x <= Head(s) THEN <<x>> \o s
    ELSE <<Head(s)>> \o InsertSorted(Tail(s), x)

RECURSIVE SortInts(_)
SortInts(s) == IF s = <<>> THEN <<>> ELSE InsertSorted(SortInts(Tail(s)), Head(s))

\* variant: the mean of the rates
Median_Mut(rates) ==
    LET RECURSIVE Sum(_)
        Sum(q) == IF q = <<>> THEN 0 ELSE Head(q) + Sum(Tail(q))
    IN  RoundHalfEven(Sum(rates), Len(rates))

\* round(statistics.median(samples))
Median(rates) ==
    LET s == SortInts(rates)
        n == Len(s)
    IN  IF n % 2 = 1 THEN s[(n + 1) \div 2]
        ELSE RoundHalfEven(s[n \div 2] + s[n \div 2 + 1], 2)

(***************************************************************************)
(* Inputs: the hash function and the server responses                      *)
(***************************************************************************)
Prefixes == {"c1", "c2"}
Nonces == 0 .. MaxNonce

\* a 32-byte digest with the given first two bytes
Digest32(b1, b2) == [k \in 1 .. DIGEST_BYTES |-> IF k = 1 THEN b1 ELSE IF k = 2 THEN b2 ELSE 171]

\* digests with 0, 1, 8 and 12 leading zero bits
Digests == {Digest32(255, 0), Digest32(64, 0), Digest32(0, 128), Digest32(0, 15)}

HashTables == [Nonces -> Digests]

\* the tables of hashlib.sha256(prefix + ":" + str(nonce)) used by the account runs
EasyTable == [n \in Nonces |-> IF n = 0 THEN Digest32(64, 0) ELSE Digest32(0, 15)]
HardTable == [n \in Nonces |-> IF n = 1 THEN Digest32(0, 128) ELSE Digest32(255, 0)]
MainHashes == {[p \in Prefixes |-> IF p = "c1" THEN EasyTable ELSE HardTable]}

IntVal(n) == [t |-> "int", v |-> n]
NoVal(kind) == [t |-> kind, v |-> 0]

ElapsedValues == {0, 2}
Rates == {0, 2}
\* QAQ_AL_TIER: the lowest tier and the default
Tiers == {1, DEFAULT_TIER}

\* todaySignin of /api/me
TodayAbsent == [kind |-> Absent, reward_final |-> Absent, tier_name |-> Absent]
TodayValues ==
    { TodayAbsent,
      [kind |-> Bad, reward_final |-> Absent, tier_name |-> Absent],
      [kind |-> "map", reward_final |-> Absent, tier_name |-> Absent],
      [kind |-> "map", reward_final |-> "5", tier_name |-> "gold"] }

\* what session.get(/api/me) + response_resolve deliver
MeNone == [kind |-> "null", user |-> Absent, signed |-> FALSE, today |-> TodayAbsent]
MeExc == [kind |-> "exc", user |-> Absent, signed |-> FALSE, today |-> TodayAbsent]
MeResponses ==
    {MeNone, MeExc}
    \cup [kind : {"json"}, user : {Absent, Bad, "map"}, signed : {TRUE}, today : TodayValues]
    \cup [kind : {"json"}, user : {Absent, Bad, "map"}, signed : {FALSE}, today : {TodayAbsent}]

\* what session.get(/api/pow/challenge) + response_resolve deliver
ChNone == [kind |-> "null", challenge |-> Absent, challengeId |-> Absent, difficulty |-> NoVal(Absent)]
ChExc == [kind |-> "exc", challenge |-> Absent, challengeId |-> Absent, difficulty |-> NoVal(Absent)]
ChJson(c, id, d) == [kind |-> "json", challenge |-> c, challengeId |-> id, difficulty |-> d]
ChallengeResponses ==
    {ChNone, ChExc}
    \cup {ChJson(c, "id1", IntVal(d)) : c \in Prefixes, d \in {1, 8}}
    \cup { ChJson(Absent, "id1", IntVal(1)),
           ChJson("c1", Absent, IntVal(1)),
           ChJson("c1", "id1", NoVal(Absent)),
           ChJson("c1", "id1", NoVal(Bad)),
           ChJson(Bad, "id1", IntVal(1)) }

\* what session.post(/api/pow/submit) + response_resolve deliver
SubJson(rf, rb, mu, tn, no) ==
    [kind |-> "json", rewardFinal |-> rf, rewardBase |-> rb, multiplier |-> mu,
     tierName |-> tn, notes |-> no]
SubNone == [SubJson(Absent, Absent, Absent, Absent, Absent) EXCEPT !.kind = "null"]
SubExc == [SubJson(Absent, Absent, Absent, Absent, Absent) EXCEPT !.kind = "exc"]
SubmitResponses ==
    { SubNone, SubExc,
      SubJson(Absent, Absent, Absent, "gold", Absent),
      SubJson("5", Absent, Absent, Absent, Absent),
      SubJson("7", "3", "2", "gold", "n") }

(***************************************************************************)
(* State                                                                   *)
(***************************************************************************)
VARIABLES
    \* main()
    sids,                   \* the sid list load_accounts returned (<<>>: None)
    tier,                   \* QAQ_AL_TIER
    mpc,                    \* position of main: "start", "loop", "exited"
    idx,                    \* i of the account loop: accounts 1..idx are done
    success_count,
    notification_content,   \* the report lines, in order
    current_info,           \* the results dict, as its items in insertion order
    last_hash,              \* what load_balance_hash returned
    stored_hash,            \* content of the digest file
    pushed,                 \* titles handed to notify.push_message, in order
    events,                 \* order of file accesses and account starts
    main_ret,               \* what main() returned, -1 if it did not return
    exit_code,              \* process exit status, -1 while running
    processed,              \* per finished account: [account, outcome]
    \* CheckIn.execute of the current account
    epc,                    \* position inside the account iteration
    calls,                  \* steps execute has performed, in order
    cf,                     \* result of _get_cf_clearance
    session,                \* "none", "open", "closed"
    me_resp, me_data, hps, challenge_data, submit_data,
    chal_req, submit_req,   \* parameters of the requests sent
    chal_resp, submit_resp, \* what the challenge and submit endpoints answered
    ret,                    \* the (success, result) execute returns
    \* calculate_nonce
    H,                      \* the hash function: prefix -> nonce -> digest
    spc,                    \* "idle", "run", "ret", "raised"
    sprefix, sdiff, nonce, solve_ret,
    \* count_leading_zero_bits
    bits_in, bits_out,
    \* the CDK generators get_runawaytime_cdk ("wheel") and get_b4u_cdk ("b4u")
    provider,               \* which generator runs
    hcookies,               \* account_config has get_cdk_cookies
    hpc,                    \* position inside the generator
    after_yield,            \* where the generator goes on when it is resumed
    hsession,               \* "none", "open", "closed"
    remaining,
    draw_count,             \* spin_count / draw_count
    yielded,                \* the items handed to the consumer, in order
    seeded, seed,           \* remaining as the status stage left it
    stage_mark,             \* Len(yielded) when the draw stage began
    draws,                  \* draw requests sent
    resp_log,               \* the draw responses received, in order
    cf_calls, status_calls, \* calls of get_cf_clearance / draw-status requests
    \* the two generators fed the same draw outcomes, one after the other
    feed,                   \* the outcomes the server gives, by draw number
    first,                  \* what the wheel loop did with them (NoFirst before)
    \* generate_checkin_hash alone
    dig_a, dig_b,           \* two results dicts, as items in insertion order
    hash_a, hash_b,         \* their digests (NoHash before the call)
    \* successive runs of main over the same digest file
    run_no,                 \* number of the current run
    prev,                   \* results of the run before (NoPrev in the first)
    \* the CDK generators: what their collaborators delivered
    hcf,                    \* result of get_cf_clearance in get_b4u_cdk
    htoken,                 \* where get_x666_cdk got its access_token from
    hstatus,                \* the status response get_x666_cdk received
    \* benchmark_hps alone
    bpc,                    \* "off", "rounds", "done"
    samples,                \* the rates of the rounds measured so far
    final_hps,              \* the returned rate (NoInt before the return)
    \* LinuxDoReadPosts._read_posts_sequential
    rpc,                    \* "off", "start", "loop", "save", "done"
    topic_file,             \* content of the topic id cache file
    entry_file,             \* its content when the function was entered
    load_ok,                \* whether _load_topic_id could read the file
    base_topic_id, max_posts,
    cached_topic_id, current_topic_id, read_count, invalid_count,
    save_calls              \* the arguments of the _save_topic_id calls

mainVars == <<sids, tier, mpc, idx, success_count, notification_content, current_info,
              last_hash, stored_hash, pushed, events, main_ret, exit_code, processed>>
execVars == <<epc, calls, cf, session, me_resp, me_data, hps, challenge_data, submit_data,
              chal_req, submit_req, chal_resp, submit_resp, ret>>
solverVars == <<H, spc, sprefix, sdiff, nonce, solve_ret>>
bitsVars == <<bits_in, bits_out>>
harvestVars == <<provider, hcookies, hpc, after_yield, hsession, remaining, draw_count,
                 yielded, seeded, seed, stage_mark, draws, resp_log, cf_calls,
                 status_calls>>

pairVars == <<feed, first>>
digestVars == <<dig_a, dig_b, hash_a, hash_b>>
runVars == <<run_no, prev>>
cdkVars == <<hcf, htoken, hstatus>>
benchVars == <<bpc, samples, final_hps>>
readVars == <<rpc, topic_file, entry_file, load_ok, base_topic_id, max_posts,
              cached_topic_id, current_topic_id, read_count, invalid_count,
              save_calls>>
lateVars == <<cdkVars, benchVars, readVars>>

vars == <<mainVars, execVars, solverVars, bitsVars, harvestVars, pairVars, digestVars,
          runVars, lateVars>>

(***************************************************************************)
(* Values of execute and main                                              *)
(***************************************************************************)
NoInt == -1

\* the dict execute returns, with its success flag
RetRec(ok, rf, rb, mu, tn, no, already, pe, ph, err) ==
    [ok |-> ok, reward_final |-> rf, reward_base |-> rb, multiplier |-> mu,
     tier_name |-> tn, notes |-> no, already_signed |-> already,
     pow_elapsed |-> pe, pow_hps |-> ph, error |-> err]

Failure(err) == RetRec(FALSE, Absent, Absent, Absent, Absent, Absent, FALSE, NoInt, NoInt, err)
NoRet == Failure(Absent)

ERR_ME == "me_failed"
ERR_CHALLENGE == "challenge_failed"
ERR_SUBMIT == "submit_failed"
ERR_FLOW == "flow_exception"

NoSolve == [nonce |-> NoInt, leading |-> NoInt, hash |-> <<>>, elapsed |-> NoInt, hps |-> NoInt]
NoReq == [tier |-> NoInt, hps |-> NoInt]
NoSubmitReq == [challengeId |-> Absent, nonce |-> NoInt, tier |-> NoInt]

\* a report line: the data formatted into it
Line(kind, account, rf, tn, pe, ph, msg) ==
    [kind |-> kind, account |-> account, reward_final |-> rf, tier_name |-> tn,
     pow_elapsed |-> pe, pow_hps |-> ph, msg |-> msg]
SepLine == Line("sep", 0, Absent, Absent, NoInt, NoInt, Absent)

EmptyHash == <<>>

(***************************************************************************)
(* generate_checkin_hash                                                   *)
(***************************************************************************)
\* variant: new keys are put in front
DictSet_Mut(d, key, value) == <<[key |-> key, value |-> value]>> \o d

\* rewards[key] = value on a dict kept as its items in insertion order
RECURSIVE DictSet(_, _, _)
DictSet(d, key, value) ==
    IF d = <<>> THEN <<[key |-> key, value |-> value]>>
    ELSE IF Head(d).key = key THEN <<[key |-> key, value |-> value]>> \o Tail(d)
    ELSE <<Head(d)>> \o DictSet(Tail(d), key, value)

RECURSIVE InsertByKey(_, _)
InsertByKey(s, item) ==
    IF s = <<>> THEN <<item>>
    ELSE IF item.key <= Head(s).key THEN <<item>> \o s
    ELSE <<Head(s)>> \o InsertByKey(Tail(s), item)

\* variant: sort_keys is missing, the items are written in insertion order
JsonSorted_Mut(d) == d

\* json.dumps(rewards, sort_keys=True, separators=(",", ":"))
RECURSIVE JsonSorted(_)
JsonSorted(d) == IF d = <<>> THEN <<>> ELSE InsertByKey(JsonSorted(Tail(d)), Head(d))

\* hashlib.sha256(data).hexdigest()[:16], taken as collision-free
Sha16(data) == <<"sha256", data>>

\* variant: a key the results do not have is read, every value is the default
RECURSIVE RewardsOf_Mut(_)
RewardsOf_Mut(results) ==
    IF results = <<>> THEN <<>>
    ELSE DictSet(RewardsOf_Mut(SubSeq(results, 1, Len(results) - 1)),
                 Last(results).key, "0")

\* the loop building rewards from the results
RECURSIVE RewardsOf(_)
RewardsOf(results) ==
    IF results = <<>> THEN <<>>
    ELSE DictSet(RewardsOf(SubSeq(results, 1, Len(results) - 1)),
                 Last(results).key, Get(Last(results).value.reward_final, "0"))

generate_checkin_hash(results) ==
    IF results = <<>> THEN EmptyHash ELSE Sha16(JsonSorted(RewardsOf(results)))

(***************************************************************************)
(* CheckIn: the helpers of execute                                         *)
(***************************************************************************)
CfResults == {"ok", "nocf", "none"}

\* variant: any parsed body is taken as the status, with or without a user
check_me_Mut(r) == IF r.kind = "json" THEN r ELSE MeNone

\* _check_me: the data, or None (MeNone) on an exception, an unparseable
\* body, a missing user, or an AttributeError while formatting the log line
check_me(r) ==
    IF /\ r.kind = "json"
       /\ r.user = "map"
       /\ (r.signed => r.today.kind # Bad)
    THEN r ELSE MeNone

\* variant: the log line does not read challengeId and difficulty
get_challenge_Mut(r) == IF r.kind = "json" /\ r.challenge # Absent THEN r ELSE ChNone

\* _get_challenge: the data, or None (ChNone) on an exception, an unparseable
\* body, a missing challenge, or a KeyError while formatting the log line
get_challenge(r) ==
    IF /\ r.kind = "json"
       /\ r.challenge # Absent
       /\ r.challengeId # Absent
       /\ r.difficulty.t # Absent
    THEN r ELSE ChNone

\* variant: any parsed body is taken as the receipt
submit_Mut(r) == IF r.kind = "json" THEN r ELSE SubNone

\* _submit: the data, or None (SubNone)
submit(r) == IF r.kind = "json" /\ r.rewardFinal # Absent THEN r ELSE SubNone

\* how often execute has performed the step s
CallsOf(s) == Cardinality({i \in 1 .. Len(calls) : calls[i] = s})

\* variant: the default tier is submitted, whatever tier the challenge was
\* requested for
SubmitRequest_Mut(ch, solved, t) ==
    [challengeId |-> ch.challengeId, nonce |-> solved.nonce, tier |-> DEFAULT_TIER]

\* the json body _submit posts for the call
\* self._submit(session, challenge_data["challengeId"], result["nonce"], tier)
SubmitRequest(ch, solved, t) ==
    [challengeId |-> ch.challengeId, nonce |-> solved.nonce, tier |-> t]

\* variant: a failed request is sent a second time
OnFailure_Mut(step) == IF CallsOf(step) < 2 THEN step ELSE "close"

\* variant: a failed step returns without passing the finally clause
OnFailure_MutNoClose(step) == "ret"

\* a failed step returns from execute: control goes to the finally clause
OnFailure(step) == "close"

\* variant: an exception of the request leaves the helper and reaches the
\* except clause of execute
HelperFailure_Mut(r, err) == IF r.kind = "exc" THEN Failure(ERR_FLOW) ELSE Failure(err)

\* a helper that caught an exception has returned None, like one that got no
\* usable body: execute reports the error of the step
HelperFailure(r, err) == Failure(err)

\* variant: no short-circuit for an account that is already signed in
AfterCheckMe_Mut(me) == IF me = MeNone THEN "failed" ELSE "bench"

\* execute, after _check_me: where it goes next
AfterCheckMe(me) ==
    IF me # MeNone /\ me.signed THEN "already"
    ELSE IF me = MeNone THEN "failed"
    ELSE "bench"

\* variant: the granted reward is not echoed back
AlreadySignedResult_Mut(me) ==
    RetRec(TRUE, "0", Absent, Absent, Get(me.today.tier_name, ""), Absent, TRUE,
           NoInt, NoInt, Absent)

\* the result of the AlreadySignedToday return
AlreadySignedResult(me) ==
    RetRec(TRUE, Get(me.today.reward_final, "0"), Absent, Absent,
           Get(me.today.tier_name, ""), Absent, TRUE, NoInt, NoInt, Absent)

\* variant: the result of _get_challenge is not checked
AfterChallenge_Mut(ch) == "nonce"

\* execute, after _get_challenge
AfterChallenge(ch) == IF ch = ChNone THEN "failed" ELSE "nonce"

\* execute, after _submit
SubmitResult(sub, solved) ==
    IF sub = SubNone THEN Failure(ERR_SUBMIT)
    ELSE RetRec(TRUE, Get(sub.rewardFinal, "0"), Get(sub.rewardBase, "0"),
                Get(sub.multiplier, "1"), Get(sub.tierName, ""), Get(sub.notes, ""),
                FALSE, solved.elapsed, solved.hps, Absent)

ExecIdle ==
    /\ epc = "idle" /\ calls = <<>> /\ cf = Absent /\ session = "none"
    /\ me_resp = MeNone /\ me_data = MeNone /\ hps = NoInt /\ challenge_data = ChNone
    /\ submit_data = SubNone /\ chal_req = NoReq /\ submit_req = NoSubmitReq
    /\ chal_resp = ChNone /\ submit_resp = SubNone
    /\ ret = NoRet

SolverIdle(h) ==
    /\ H = h /\ spc = "idle" /\ sprefix = Absent /\ sdiff = NoVal(Absent)
    /\ nonce = 0 /\ solve_ret = NoSolve

\* the exec and solver variables after the account iteration has ended
ExecReset ==
    /\ epc' = "idle" /\ calls' = <<>> /\ cf' = Absent /\ session' = "none"
    /\ me_resp' = MeNone /\ me_data' = MeNone /\ hps' = NoInt /\ challenge_data' = ChNone
    /\ submit_data' = SubNone /\ chal_req' = NoReq /\ submit_req' = NoSubmitReq
    /\ chal_resp' = ChNone /\ submit_resp' = SubNone
    /\ ret' = NoRet
    /\ spc' = "idle" /\ sprefix' = Absent /\ sdiff' = NoVal(Absent)
    /\ nonce' = 0 /\ solve_ret' = NoSolve
    /\ UNCHANGED H

\* variant: an exception ends the loop
MainExcept_Mut(lines) ==
    /\ notification_content' =
           Append(lines, Line("exception", idx + 1, Absent, Absent, NoInt, NoInt, Absent))
    /\ processed' = Append(processed, [account |-> idx + 1, outcome |-> "exception"])
    /\ idx' = Len(sids)
    /\ UNCHANGED <<success_count, current_info>>

\* the except branch of the account loop: the report line of an exception
MainExcept(lines) ==
    /\ notification_content' =
           Append(lines, Line("exception", idx + 1, Absent, Absent, NoInt, NoInt, Absent))
    /\ processed' = Append(processed, [account |-> idx + 1, outcome |-> "exception"])
    /\ idx' = idx + 1
    /\ UNCHANGED <<success_count, current_info>>

\* the separator the loop puts before every account but the first reported
WithSeparator(lines) == IF lines # <<>> THEN Append(lines, SepLine) ELSE lines

(***************************************************************************)
(* The account loop of main: entering an iteration                         *)
(***************************************************************************)
AccountBegin ==
    /\ mpc = "loop" /\ epc = "idle" /\ idx < Len(sids)
    /\ notification_content' = WithSeparator(notification_content)
    /\ events' = Append(events, "account")
    /\ epc' = "cf"
    /\ UNCHANGED <<sids, tier, mpc, idx, success_count, current_info, last_hash,
                   stored_hash, pushed, main_ret, exit_code, processed>>
    /\ UNCHANGED <<calls, cf, session, me_resp, me_data, hps, challenge_data, submit_data,
                   chal_req, chal_resp, submit_req, submit_resp, ret>>
    /\ UNCHANGED <<solverVars, bitsVars, harvestVars, pairVars, digestVars, runVars, lateVars>>

\* CheckIn(...) raises (proxy_resolve): caught by the loop
ConstructRaises ==
    /\ mpc = "loop" /\ epc = "idle" /\ idx < Len(sids)
    /\ MainExcept(WithSeparator(notification_content))
    /\ events' = Append(events, "account")
    /\ UNCHANGED <<sids, tier, mpc, last_hash, stored_hash, pushed, main_ret, exit_code>>
    /\ UNCHANGED <<execVars, solverVars, bitsVars, harvestVars,
                   pairVars, digestVars, runVars, lateVars>>

(***************************************************************************)
(* CheckIn.execute, step by step                                           *)
(***************************************************************************)
\* variant: execute gives up when no clearance cookies were obtained
AfterCfClearance_Mut(c) == IF c = "ok" THEN "build" ELSE "close"

\* execute, after _get_cf_clearance: the result is not inspected
AfterCfClearance(c) == "build"

GetCfClearance ==
    /\ epc = "cf"
    /\ \E r \in CfResults : cf' = r /\ epc' = AfterCfClearance(r)
    /\ calls' = Append(calls, "cf")
    /\ UNCHANGED <<session, me_resp, me_data, hps, challenge_data, submit_data, chal_req,
                   chal_resp, submit_req, submit_resp, ret>>
    /\ UNCHANGED <<mainVars, solverVars, bitsVars, harvestVars,
                   pairVars, digestVars, runVars, lateVars>>

BuildSession ==
    /\ epc = "build"
    /\ session' = "open"
    /\ calls' = Append(calls, "build")
    /\ epc' = "me"
    /\ UNCHANGED <<cf, me_resp, me_data, hps, challenge_data, submit_data, chal_req,
                   chal_resp, submit_req, submit_resp, ret>>
    /\ UNCHANGED <<mainVars, solverVars, bitsVars, harvestVars,
                   pairVars, digestVars, runVars, lateVars>>

\* _build_session raises: it runs before the try of execute, so the
\* exception leaves execute and is caught by the loop of main
BuildSessionRaises ==
    /\ epc = "build"
    /\ MainExcept(notification_content)
    /\ ExecReset
    /\ UNCHANGED <<sids, tier, mpc, last_hash, stored_hash, pushed, events, main_ret,
                   exit_code>>
    /\ UNCHANGED <<bitsVars, harvestVars, pairVars, digestVars, runVars, lateVars>>

CheckMe ==
    /\ epc = "me"
    /\ \E r \in MeResponses :
        LET me == check_me(r)
            next == AfterCheckMe(me)
        IN  /\ me_resp' = r
            /\ me_data' = me
            /\ epc' = IF next = "bench" THEN "bench"
                      ELSE IF next = "failed" THEN OnFailure("me")
                      ELSE "close"
            /\ ret' = IF next = "already" THEN AlreadySignedResult(me)
                      ELSE IF next = "failed" THEN HelperFailure(r, ERR_ME)
                      ELSE ret
    /\ calls' = Append(calls, "me")
    /\ UNCHANGED <<cf, session, hps, challenge_data, submit_data, chal_req,
                   chal_resp, submit_req, submit_resp>>
    /\ UNCHANGED <<mainVars, solverVars, bitsVars, harvestVars,
                   pairVars, digestVars, runVars, lateVars>>

Benchmark ==
    /\ epc = "bench"
    /\ \E measured \in [1 .. BENCH_ROUNDS -> Rates] : hps' = Median(measured)
    /\ calls' = Append(calls, "bench")
    /\ epc' = "challenge"
    /\ UNCHANGED <<cf, session, me_resp, me_data, challenge_data, submit_data, chal_req,
                   chal_resp, submit_req, submit_resp, ret>>
    /\ UNCHANGED <<mainVars, solverVars, bitsVars, harvestVars,
                   pairVars, digestVars, runVars, lateVars>>

GetChallenge ==
    /\ epc = "challenge"
    /\ \E r \in ChallengeResponses :
        LET ch == get_challenge(r)
            next == AfterChallenge(ch)
        IN  /\ challenge_data' = ch
            /\ epc' = IF next = "nonce" THEN "nonce" ELSE OnFailure("challenge")
            /\ ret' = IF next = "failed" THEN HelperFailure(r, ERR_CHALLENGE) ELSE ret
            /\ chal_resp' = r
    /\ chal_req' = [tier |-> tier, hps |-> hps]
    /\ calls' = Append(calls, "challenge")
    /\ UNCHANGED <<cf, session, me_resp, me_data, hps, submit_data, submit_req, submit_resp>>
    /\ UNCHANGED <<mainVars, solverVars, bitsVars, harvestVars,
                   pairVars, digestVars, runVars, lateVars>>

\* the call calculate_nonce(challenge, difficulty): (challenge + ":") raises
\* a TypeError when challenge is no string
SolveStart ==
    /\ epc = "nonce"
    /\ calls' = Append(calls, "nonce")
    /\ IF challenge_data.challenge \in Prefixes
       THEN /\ spc' = "run"
            /\ sprefix' = challenge_data.challenge
            /\ sdiff' = challenge_data.difficulty
            /\ nonce' = 0
            /\ epc' = "solve"
            /\ UNCHANGED ret
       ELSE /\ epc' = "close"
            /\ ret' = Failure(ERR_FLOW)
            /\ UNCHANGED <<spc, sprefix, sdiff, nonce>>
    /\ UNCHANGED <<H, solve_ret>>
    /\ UNCHANGED <<cf, session, me_resp, me_data, hps, challenge_data, submit_data, chal_req,
                   chal_resp, submit_req, submit_resp>>
    /\ UNCHANGED <<mainVars, bitsVars, harvestVars, pairVars, digestVars, runVars, lateVars>>

(***************************************************************************)
(* calculate_nonce: one iteration of its while loop                        *)
(***************************************************************************)
\* variant: strict comparison
Accepts_Mut(leading, difficulty) == leading > difficulty

\* if leading >= difficulty
Accepts(leading, difficulty) == leading >= difficulty

\* the dict calculate_nonce returns
SolveResult(n, leading, hash_bytes, elapsed) ==
    [nonce |-> n, leading |-> leading, hash |-> hash_bytes, elapsed |-> elapsed,
     hps |-> RateOf(n, elapsed)]

NonceIter ==
    /\ spc = "run" /\ nonce <= MaxNonce
    /\ LET hash_bytes == H[sprefix][nonce]
           leading == count_leading_zero_bits(hash_bytes)
       IN  IF sdiff.t # "int"
           THEN \* leading >= difficulty raises a TypeError
                /\ spc' = "raised"
                /\ UNCHANGED <<nonce, solve_ret>>
           ELSE IF Accepts(leading, sdiff.v)
           THEN /\ \E elapsed \in ElapsedValues :
                       solve_ret' = SolveResult(nonce, leading, hash_bytes, elapsed)
                /\ spc' = "ret"
                /\ UNCHANGED nonce
           ELSE /\ nonce' = nonce + 1
                /\ UNCHANGED <<spc, solve_ret>>
    /\ UNCHANGED <<H, sprefix, sdiff>>
    /\ UNCHANGED <<mainVars, execVars, bitsVars, harvestVars,
                   pairVars, digestVars, runVars, lateVars>>

(***************************************************************************)
(* CheckIn.execute, continued                                              *)
(***************************************************************************)
\* an exception inside calculate_nonce reaches the except of execute
SolveRaised ==
    /\ epc = "solve" /\ spc = "raised"
    /\ ret' = Failure(ERR_FLOW)
    /\ epc' = "close"
    /\ spc' = "idle"
    /\ UNCHANGED <<H, sprefix, sdiff, nonce, solve_ret>>
    /\ UNCHANGED <<calls, cf, session, me_resp, me_data, hps, challenge_data, submit_data,
                   chal_req, chal_resp, submit_req, submit_resp>>
    /\ UNCHANGED <<mainVars, bitsVars, harvestVars, pairVars, digestVars, runVars, lateVars>>

Submit ==
    /\ epc = "solve" /\ spc = "ret"
    /\ \E r \in SubmitResponses :
        LET sub == submit(r)
        IN  /\ submit_data' = sub
            /\ ret' = IF sub = SubNone THEN HelperFailure(r, ERR_SUBMIT)
                      ELSE SubmitResult(sub, solve_ret)
            /\ submit_resp' = r
    /\ submit_req' = SubmitRequest(challenge_data, solve_ret, tier)
    /\ calls' = Append(calls, "submit")
    /\ epc' = "close"
    /\ UNCHANGED <<cf, session, me_resp, me_data, hps, challenge_data, chal_req, chal_resp>>
    /\ UNCHANGED <<mainVars, solverVars, bitsVars, harvestVars,
                   pairVars, digestVars, runVars, lateVars>>

\* finally: session.close(), then execute returns ret
CloseSession ==
    /\ epc = "close"
    /\ session' = "closed"
    /\ calls' = Append(calls, "close")
    /\ epc' = "ret"
    /\ UNCHANGED <<cf, me_resp, me_data, hps, challenge_data, submit_data, chal_req,
                   chal_resp, submit_req, submit_resp, ret>>
    /\ UNCHANGED <<mainVars, solverVars, bitsVars, harvestVars,
                   pairVars, digestVars, runVars, lateVars>>

(***************************************************************************)
(* The account loop of main: taking the result of execute                  *)
(***************************************************************************)
\* variant: every returned result is counted
CountedAsSuccess_Mut(r) == TRUE

\* if success:
CountedAsSuccess(r) == r.ok

ReportLine(account, r) ==
    IF r.ok
    THEN IF r.already_signed
         THEN Line("already", account, Get(r.reward_final, "?"), Get(r.tier_name, ""),
                   NoInt, NoInt, Absent)
         ELSE Line("reward", account, Get(r.reward_final, "?"), Get(r.tier_name, ""),
                   r.pow_elapsed, r.pow_hps, Absent)
    ELSE Line("error", account, Absent, Absent, NoInt, NoInt, Get(r.error, "unknown"))

AccountEnd ==
    /\ mpc = "loop" /\ epc = "ret"
    /\ IF CountedAsSuccess(ret)
       THEN /\ success_count' = success_count + 1
            /\ current_info' = DictSet(current_info, idx + 1, ret)
       ELSE UNCHANGED <<success_count, current_info>>
    /\ notification_content' = Append(notification_content, ReportLine(idx + 1, ret))
    /\ processed' = Append(processed, [account |-> idx + 1,
                                       outcome |-> IF ret.ok THEN "success" ELSE "failure"])
    /\ idx' = idx + 1
    /\ ExecReset
    /\ UNCHANGED <<sids, tier, mpc, last_hash, stored_hash, pushed, events, main_ret,
                   exit_code>>
    /\ UNCHANGED <<bitsVars, harvestVars, pairVars, digestVars, runVars, lateVars>>

(***************************************************************************)
(* main: before and after the account loop                                 *)
(***************************************************************************)
MainStart ==
    /\ mpc = "start"
    /\ IF sids = <<>>
       THEN \* main returns 1; run_main drops the value and the process ends
            /\ mpc' = "exited"
            /\ main_ret' = 1
            /\ exit_code' = 0
            /\ UNCHANGED <<last_hash, events>>
       ELSE /\ last_hash' = stored_hash
            /\ events' = Append(events, "load")
            /\ mpc' = "loop"
            /\ UNCHANGED <<main_ret, exit_code>>
    /\ UNCHANGED <<sids, tier, idx, success_count, notification_content, current_info,
                   stored_hash, pushed, processed>>
    /\ UNCHANGED <<execVars, solverVars, bitsVars, harvestVars,
                   pairVars, digestVars, runVars, lateVars>>

\* variant: the first-run test is missing
ShouldNotify_Mut(last, current) == current # last

\* need_notify
ShouldNotify(last, current) == last = EmptyHash \/ current # last

\* the title of the notification
Title(successes, total) == IF successes = total THEN "success" ELSE "alert"

\* variant: the digest is saved whatever it is
ShouldSave_Mut(current_hash) == TRUE

\* if current_hash: save_balance_hash(...)
ShouldSave(current_hash) == current_hash # EmptyHash

\* variant: status 0 only when every account succeeded
ExitCode_Mut(successes) == IF successes = Len(sids) THEN 0 ELSE 1

\* variant: a status of its own for a batch in which only some succeeded
ExitCode_Mut3(successes) ==
    IF successes = Len(sids) THEN 0 ELSE IF successes > 0 THEN 2 ELSE 1

\* sys.exit(0 if success_count > 0 else 1)
ExitCode(successes) == IF successes > 0 THEN 0 ELSE 1

MainFinish ==
    /\ mpc = "loop" /\ epc = "idle" /\ idx = Len(sids)
    /\ LET current_hash == generate_checkin_hash(current_info)
           push == ShouldNotify(last_hash, current_hash) /\ notification_content # <<>>
           save == ShouldSave(current_hash)
       IN  /\ pushed' = IF push THEN Append(pushed, Title(success_count, Len(sids)))
                        ELSE pushed
           /\ stored_hash' = IF save THEN current_hash ELSE stored_hash
           /\ events' = events \o (IF push THEN <<"push">> ELSE <<>>)
                               \o (IF save THEN <<"save">> ELSE <<>>)
    /\ exit_code' = ExitCode(success_count)
    /\ mpc' = "exited"
    /\ UNCHANGED <<sids, tier, idx, success_count, notification_content, current_info,
                   last_hash, main_ret, processed>>
    /\ UNCHANGED <<execVars, solverVars, bitsVars, harvestVars,
                   pairVars, digestVars, runVars, lateVars>>

(***************************************************************************)
(* Specification of a run of main                                          *)
(***************************************************************************)
PriorHashes == {EmptyHash, Sha16(<<[key |-> 1, value |-> "5"]>>)}

MainIdle ==
    /\ idx = 0 /\ success_count = 0 /\ notification_content = <<>>
    /\ current_info = <<>> /\ last_hash = EmptyHash /\ pushed = <<>>
    /\ events = <<>> /\ main_ret = NoInt /\ exit_code = NoInt /\ processed = <<>>

BitsIdle == bits_in = <<>> /\ bits_out = NoInt

HarvestIdle ==
    /\ provider = "none" /\ hcookies = FALSE /\ hpc = "off" /\ after_yield = "none"
    /\ hsession = "none" /\ remaining = 0 /\ draw_count = 0 /\ yielded = <<>>
    /\ seeded = FALSE /\ seed = 0 /\ stage_mark = 0 /\ draws = 0 /\ resp_log = <<>>
    /\ cf_calls = 0 /\ status_calls = 0

NoFirst == [seed |-> NoInt, draws |-> NoInt, items |-> <<>>]
NoHash == <<"none">>
NoPrev == [info |-> <<>>, processed |-> <<>>, exit |-> NoInt]

PairIdle == feed = <<>> /\ first = NoFirst
DigestIdle == dig_a = <<>> /\ dig_b = <<>> /\ hash_a = NoHash /\ hash_b = NoHash
RunsIdle == run_no = 1 /\ prev = NoPrev
CdkIdle == hcf = Absent /\ htoken = Absent /\ hstatus = Absent
BenchIdle == bpc = "off" /\ samples = <<>> /\ final_hps = NoInt
ReadIdle ==
    /\ rpc = "off" /\ topic_file = NoInt /\ entry_file = NoInt /\ load_ok = TRUE
    /\ base_topic_id = 0 /\ max_posts = 0 /\ cached_topic_id = 0
    /\ current_topic_id = 0 /\ read_count = 0 /\ invalid_count = 0
    /\ save_calls = <<>>
LateIdle == CdkIdle /\ BenchIdle /\ ReadIdle

Init ==
    /\ sids \in {[k \in 1 .. n |-> "sid"] : n \in 0 .. MaxAccounts}
    /\ tier \in Tiers
    /\ stored_hash \in PriorHashes
    /\ mpc = "start"
    /\ MainIdle
    /\ ExecIdle
    /\ \E h \in MainHashes : SolverIdle(h)
    /\ BitsIdle
    /\ HarvestIdle
    /\ PairIdle /\ DigestIdle /\ RunsIdle /\ LateIdle

Next ==
    \/ MainStart
    \/ AccountBegin
    \/ ConstructRaises
    \/ GetCfClearance
    \/ BuildSession
    \/ BuildSessionRaises
    \/ CheckMe
    \/ Benchmark
    \/ GetChallenge
    \/ SolveStart
    \/ NonceIter
    \/ SolveRaised
    \/ Submit
    \/ CloseSession
    \/ AccountEnd
    \/ MainFinish

Spec == Init /\ [][Next]_vars

(***************************************************************************)
(* Specification of calculate_nonce alone: any prefix, any difficulty, any *)
(* hash function                                                           *)
(***************************************************************************)
MainOff ==
    /\ sids = <<>> /\ tier = DEFAULT_TIER /\ stored_hash = EmptyHash /\ mpc = "off"
    /\ MainIdle

Difficulties == {IntVal(d) : d \in 0 .. MaxDifficulty} \cup {NoVal(Bad)}

InitNonce ==
    /\ MainOff
    /\ ExecIdle
    /\ sprefix \in Prefixes
    /\ sdiff \in Difficulties
    /\ \E t \in HashTables : H = [p \in Prefixes |-> IF p = sprefix THEN t ELSE EasyTable]
    /\ spc = "run" /\ nonce = 0 /\ solve_ret = NoSolve
    /\ BitsIdle
    /\ HarvestIdle
    /\ PairIdle /\ DigestIdle /\ RunsIdle /\ LateIdle

NextNonce == NonceIter

SpecNonce == InitNonce /\ [][NextNonce]_vars

(***************************************************************************)
(* Specification of count_leading_zero_bits alone                          *)
(***************************************************************************)
Zeros(k) == [i \in 1 .. k |-> 0]

FirstBytes == {1, 2, 15, 16, 64, 127, 128, 255}
Tails == {<<>>, <<0>>, <<255, 0>>}

\* k zero bytes, then nothing or a non-zero byte and any tail
BitsInputs ==
    {Zeros(k) : k \in 0 .. MaxZeroBytes}
    \cup {Zeros(k) \o <<b>> \o t : k \in 0 .. MaxZeroBytes, b \in FirstBytes, t \in Tails}

InitBits ==
    /\ MainOff
    /\ ExecIdle
    /\ SolverIdle([p \in Prefixes |-> EasyTable])
    /\ bits_in \in BitsInputs
    /\ bits_out = NoInt
    /\ HarvestIdle
    /\ PairIdle /\ DigestIdle /\ RunsIdle /\ LateIdle

CountBits ==
    /\ bits_out = NoInt /\ mpc = "off" /\ hpc = "off" /\ spc = "idle"
    /\ bits_out' = count_leading_zero_bits(bits_in)
    /\ UNCHANGED bits_in
    /\ UNCHANGED <<mainVars, execVars, solverVars, harvestVars,
                   pairVars, digestVars, runVars, lateVars>>

NextBits == CountBits

SpecBits == InitBits /\ [][NextBits]_vars

(***************************************************************************)
(* Properties of CheckIn.execute                                           *)
(***************************************************************************)
StepRank(c) ==
    CASE c = "cf" -> 1
      [] c = "build" -> 2
      [] c = "me" -> 3
      [] c = "bench" -> 4
      [] c = "challenge" -> 5
      [] c = "nonce" -> 6
      [] c = "submit" -> 7
      [] c = "close" -> 8

\* C1: execute performs its steps in state-machine order, none twice: the
\* challenge request only after a status that says not signed in,
\* calculate_nonce only after a challenge was acquired, the submit request
\* only after calculate_nonce returned.
C1_StateMachineOrder ==
    /\ \A a, b \in DOMAIN calls : a < b => StepRank(calls[a]) < StepRank(calls[b])
    /\ "challenge" \in Range(calls) =>
           "me" \in Range(calls) /\ me_data # MeNone /\ ~me_data.signed
    /\ "nonce" \in Range(calls) =>
           "challenge" \in Range(calls) /\ challenge_data # ChNone
    /\ "submit" \in Range(calls) =>
           "nonce" \in Range(calls) /\ spc = "ret" /\ solve_ret # NoSolve

C1_Witness == epc = "ret" /\ "submit" \in Range(calls) /\ ret.ok

StatusSaysSigned == me_resp.kind = "json" /\ me_resp.signed

\* C2: when the status response says signedInToday, execute calls neither the
\* benchmark, nor the challenge endpoint, nor calculate_nonce, nor the
\* submit endpoint.
C2_NoWorkWhenSigned ==
    StatusSaysSigned =>
        /\ Range(calls) \cap {"bench", "challenge", "nonce", "submit"} = {}
        /\ chal_req = NoReq /\ submit_req = NoSubmitReq /\ spc = "idle"

C2_Witness == StatusSaysSigned /\ epc = "ret" /\ ret.ok /\ "close" \in Range(calls)

AlreadySignedReturn ==
    /\ ret.ok /\ ret.already_signed
    /\ ret.reward_final = Get(me_resp.today.reward_final, "0")

\* C3 as stated: every status response with signedInToday true, whatever
\* else it carries or lacks, ends in the successful AlreadySignedToday return
\* that echoes todaySignin.reward_final.
C3_Original == (epc = "ret" /\ StatusSaysSigned) => AlreadySignedReturn

\* C3 as amended: this holds for the status responses that carry a user
\* object and whose todaySignin, when present, is an object.
C3_AlreadySigned ==
    (epc = "ret" /\ StatusSaysSigned /\ me_resp.user = "map" /\ me_resp.today.kind # Bad)
        => AlreadySignedReturn

C3_Witness ==
    /\ epc = "ret" /\ StatusSaysSigned /\ me_resp.user = "map"
    /\ me_resp.today.reward_final = "5" /\ ret.ok /\ ret.reward_final = "5"

(***************************************************************************)
(* Properties of the account loop                                          *)
(***************************************************************************)
\* C4: every account of the list is processed exactly once, in whatever way
\* the accounts before it ended; the run ends only after the last account.
C4_EveryAccountOnce ==
    /\ Len(processed) = idx /\ idx <= Len(sids)
    /\ \A k \in DOMAIN processed : processed[k].account = k
    /\ (mpc = "exited" /\ sids # <<>>) => Len(processed) = Len(sids)

C4_Witness ==
    /\ mpc = "exited" /\ Len(processed) = 2
    /\ processed[1].outcome = "exception"
    /\ processed[2].outcome = "success"

SuccessesIn(p) == Cardinality({k \in DOMAIN p : p[k].outcome = "success"})

\* C5: success_count is the number of processed accounts that did not fail,
\* is the number of entries of current_info, and is at most the number of
\* accounts processed.
C5_SuccessCount ==
    /\ success_count = SuccessesIn(processed)
    /\ success_count = Len(current_info)
    /\ success_count <= Len(processed)

C5_Witness ==
    /\ mpc = "exited" /\ success_count = 1 /\ Len(processed) = 2
    /\ processed[1].outcome = "failure"

IsReportLine(l) == l.kind # "sep"
ReportLines(lines) == SelectSeq(lines, IsReportLine)

IsPrefix(s, t) == Len(s) <= Len(t) /\ SubSeq(t, 1, Len(s)) = s

OrderedByAccount ==
    /\ \A a, b \in DOMAIN current_info : a < b => current_info[a].key < current_info[b].key
    /\ \A k \in DOMAIN ReportLines(notification_content) :
           ReportLines(notification_content)[k].account = k
    /\ \A k \in DOMAIN processed : processed[k].account = k

\* C6: accounts are processed in list order, and current_info and the report
\* lines are built in that order: entries are only ever added at the end, the
\* entry of account i before the entry of any account j > i.
C6_InputOrder ==
    /\ []OrderedByAccount
    /\ [][/\ IsPrefix(current_info, current_info')
          /\ IsPrefix(notification_content, notification_content')]_vars

C6_Witness ==
    /\ Len(current_info) = 2 /\ current_info[1].key = 1 /\ current_info[2].key = 2
    /\ Len(ReportLines(notification_content)) = 2 /\ Len(notification_content) = 3

(***************************************************************************)
(* Properties of calculate_nonce and count_leading_zero_bits               *)
(***************************************************************************)
\* C7: calculate_nonce returns the smallest non-negative nonce whose hash has
\* at least difficulty leading zero bits, and the leading it returns is never
\* below difficulty.
C7_SmallestNonce ==
    spc = "ret" =>
        /\ sdiff.t = "int"
        /\ solve_ret.nonce \in Nat
        /\ solve_ret.leading >= sdiff.v
        /\ solve_ret.leading = count_leading_zero_bits(H[sprefix][solve_ret.nonce])
        /\ solve_ret.hash = H[sprefix][solve_ret.nonce]
        /\ \A m \in 0 .. solve_ret.nonce - 1 :
               count_leading_zero_bits(H[sprefix][m]) < sdiff.v

C7_Witness == spc = "ret" /\ solve_ret.nonce = 2 /\ sdiff.v = 8 /\ solve_ret.leading = 12

\* k: the number of leading 0x00 bytes
LeadingZeroBytes(b) == Cardinality({k \in DOMAIN b : \A m \in 1 .. k : b[m] = 0})

\* j: the number of zero bits before the first set bit, MSB first
FirstSetBit(byte) == CHOOSE j \in 0 .. 7 : byte \div (2 ^ (7 - j)) = 1

ExpectedZeroBits(b) ==
    LET k == LeadingZeroBytes(b)
    IN  IF k = Len(b) THEN 8 * k ELSE 8 * k + FirstSetBit(b[k + 1])

\* C8 as stated: for every byte sequence the result is 8*k + j, and 8*n for
\* n zero bytes.
C8_Original == bits_out # NoInt => bits_out = ExpectedZeroBits(bits_in)

\* C8 as amended: the result is 8*k + j when k < 32, and 8*k when k >= 32 or
\* when all bytes are zero.
C8_LeadingZeroBits ==
    bits_out # NoInt =>
        bits_out = IF LeadingZeroBytes(bits_in) >= ZERO_BIT_CAP \div 8
                   THEN 8 * LeadingZeroBytes(bits_in)
                   ELSE ExpectedZeroBits(bits_in)

C8_Witness == bits_in = <<0, 15, 255, 0>> /\ bits_out = 12

(***************************************************************************)
(* The CDK generators: values and server responses                         *)
(***************************************************************************)
\* the tuples a generator yields
Item(ok, code, error) == [ok |-> ok, code |-> code, error |-> error]
CodeItem(code) == Item(TRUE, code, Absent)
FailItem(error) == Item(FALSE, Absent, error)

\* server messages; "cishu yongwan" stands for a message with the characters
\* of 'count' (ci shu) in it, "yijing choujiang" for one with 'already' (yi jing)
Messages == {"", "Already spun", "No more spins", "cishu yongwan", "yijing choujiang",
             "Server busy"}

\* the substrings of interest a message has (message.lower() for the ASCII ones)
Patterns(message) ==
    CASE message = "Already spun" -> {"already"}
      [] message = "No more spins" -> {"no more"}
      [] message = "cishu yongwan" -> {"cishu"}
      [] message = "yijing choujiang" -> {"yijing"}
      [] OTHER -> {}

\* the message test of the wheel loop
WheelIsExhausted(message) ==
    Patterns(message) \cap {"already", "yijing", "cishu", "no more"} # {}

Echoes == {NoVal(Absent), IntVal(0), IntVal(MaxRemaining)}

\* POST /api/wheel: an exception, a status outside [200, 400], an
\* unparseable body, or a JSON object
WJson(success, code, echo, message) ==
    [kind |-> "json", success |-> success, code |-> code, remaining |-> echo,
     message |-> message]
WExc == [WJson(FALSE, "", NoVal(Absent), "") EXCEPT !.kind = "exc"]
WHttp == [WJson(FALSE, "", NoVal(Absent), "") EXCEPT !.kind = "http"]
WNull == [WJson(FALSE, "", NoVal(Absent), "") EXCEPT !.kind = "null"]
WheelDrawResponses ==
    {WExc, WHttp, WNull}
    \cup {WJson(TRUE, c, e, m) : c \in {"A", "B", ""}, e \in Echoes, m \in {"", "No more spins"}}
    \cup {WJson(FALSE, "", NoVal(Absent), m) : m \in Messages}

\* GET /api/wheel/status
WheelStatusResponses ==
    {[kind |-> k, remaining |-> NoVal(Absent)] : k \in {"exc", "http", "null", "json"}}
    \cup {[kind |-> "json", remaining |-> IntVal(n)] : n \in -1 .. MaxRemaining}

\* GET /api/checkin/status and POST /api/checkin
CheckinStatusResponses == {"exc", "http", "null", "checked", "unchecked"}
CheckinResponses ==
    {WExc, WHttp, WNull, WJson(TRUE, "K", NoVal(Absent), ""), WJson(TRUE, "", NoVal(Absent), ""),
     WJson(FALSE, "", NoVal(Absent), "Already spun"), WJson(FALSE, "", NoVal(Absent), "Server busy")}

\* get_cf_clearance for the lucky draw: raises, returns no cookies, returns
\* cookies without cf_clearance, or succeeds
B4uCfResults == {"exc", "none", "nocf", "ok"}

\* a line of the lucky-draw status text: not starting with "1:", "1:<int>",
\* or "1:<something else>"
SLine(t, v) == [t |-> t, v |-> v]
B4uStatusResponses ==
    {[kind |-> k, lines |-> <<>>] : k \in {"exc", "http", "text"}}
    \cup {[kind |-> "text", lines |-> <<SLine("int", n)>>] : n \in -1 .. MaxRemaining}
    \cup {[kind |-> "text", lines |-> l] :
             l \in { <<SLine("other", 0)>>,
                     <<SLine("nonint", 0)>>,
                     <<SLine("other", 0), SLine("int", MaxRemaining)>>,
                     <<SLine("int", 1), SLine("int", 0)>> }}

\* a line of the lucky-draw text: t is
\*   "other"   not starting with "1:"
\*   "num0"    "1:" + no JSON, but int() gives 0           (e.g. "1:00")
\*   "numN"    "1:" + no JSON, but int() gives another int (e.g. "1:+1")
\*   "garbage" "1:" + neither JSON nor an int
\*   "jsonval" "1:" + JSON that is no object               (e.g. "1:0")
\*   "dict"    "1:" + a JSON object with success, redemptionCode, remaining, message
DLine(t, success, code, echo, message) ==
    [t |-> t, success |-> success, code |-> code, remaining |-> echo, message |-> message]
PlainLine(t) == DLine(t, FALSE, "", NoVal(Absent), "")
AwardLine(code, echo) == DLine("dict", TRUE, code, echo, "")
FailLine(message) == DLine("dict", FALSE, "", NoVal(Absent), message)
NoLine == PlainLine("none")

B4uDrawTexts ==
    { <<>>,
      <<PlainLine("other")>>,
      <<PlainLine("garbage")>>,
      <<PlainLine("num0")>>,
      <<PlainLine("jsonval")>>,
      <<AwardLine("A", NoVal(Absent))>>,
      <<AwardLine("B", IntVal(0))>>,
      <<AwardLine("A", IntVal(MaxRemaining))>>,
      <<AwardLine("", NoVal(Absent))>>,
      <<FailLine("No more spins")>>,
      <<FailLine("Server busy")>>,
      <<PlainLine("other"), AwardLine("B", NoVal(Absent))>>,
      <<PlainLine("numN"), AwardLine("A", NoVal(Absent))>>,
      <<PlainLine("num0"), AwardLine("B", NoVal(Absent))>>,
      <<AwardLine("A", NoVal(Absent)), AwardLine("B", NoVal(Absent))>> }

B4uDrawResponses ==
    {[kind |-> k, lines |-> <<>>] : k \in {"exc", "http"}}
    \cup {[kind |-> "text", lines |-> l] : l \in B4uDrawTexts}

(***************************************************************************)
(* The CDK generators: shared steps                                        *)
(***************************************************************************)
otherVars ==
    <<mainVars, execVars, solverVars, bitsVars, pairVars, digestVars, runVars, benchVars,
      readVars>>

\* variant: the loop also runs with remaining = 0
LoopContinues_Mut(rem) == rem >= 0

\* while remaining > 0 (and, for the wheel, the if remaining > 0 around it)
LoopContinues(rem) == rem > 0

\* variant: a code is kept back and the loop goes on to the next request
Yield_Mut(item, next) ==
    IF next = "loop"
    THEN hpc' = "loop" /\ UNCHANGED <<yielded, after_yield>>
    ELSE /\ yielded' = Append(yielded, item)
         /\ hpc' = "suspended"
         /\ after_yield' = next

\* the generator hands an item to its consumer and is suspended
Yield(item, next) ==
    /\ yielded' = Append(yielded, item)
    /\ hpc' = "suspended"
    /\ after_yield' = next

Goto(pos) ==
    /\ hpc' = pos
    /\ UNCHANGED <<yielded, after_yield>>

\* an exception inside the inner try: finally closes the session, the outer
\* except yields the failure
RaiseToExcept ==
    /\ hsession' = "closed"
    /\ Yield(FailItem("exception"), "return")

\* variant: the loop is not stopped after a failed draw
B4uAfterFailure_Mut(rem) == rem

\* variant: a failed draw only uses up one attempt
B4uAfterFailure_MutDec(rem) == rem - 1

\* remaining = 0 after the failure item of a draw
B4uAfterFailure(rem) == 0

\* the consumer asks for the next item: the code after the yield runs
Resume ==
    /\ hpc = "suspended"
    /\ CASE after_yield = "loop" ->
                hpc' = "loop" /\ UNCHANGED <<remaining, hsession>>
         [] after_yield = "stop" ->
                hpc' = "loop" /\ remaining' = B4uAfterFailure(remaining) /\ UNCHANGED hsession
         [] after_yield = "status" ->
                hpc' = "status" /\ UNCHANGED <<remaining, hsession>>
         [] after_yield = "return" ->
                /\ hpc' = "done"
                /\ hsession' = IF hsession = "open" THEN "closed" ELSE hsession
                /\ UNCHANGED remaining
    /\ after_yield' = "none"
    /\ UNCHANGED <<provider, hcookies, draw_count, yielded, seeded, seed, stage_mark,
                   draws, resp_log, cf_calls, status_calls>>
    /\ UNCHANGED <<cdkVars, otherVars>>

\* the loop is left: finally closes the session and the generator ends
HarvestFinish ==
    /\ hpc = "exit" \/ (hpc = "loop" /\ ~LoopContinues(remaining))
    /\ hsession' = "closed"
    /\ hpc' = "done"
    /\ UNCHANGED <<provider, hcookies, after_yield, remaining, draw_count, yielded,
                   seeded, seed, stage_mark, draws, resp_log, cf_calls, status_calls>>
    /\ UNCHANGED <<cdkVars, otherVars>>

(***************************************************************************)
(* get_runawaytime_cdk                                                     *)
(***************************************************************************)
WheelStart ==
    /\ provider = "wheel" /\ hpc = "start"
    /\ IF ~hcookies
       THEN Yield(FailItem("no_cookies"), "return") /\ UNCHANGED hsession
       ELSE Goto("checkin_status") /\ hsession' = "open"
    /\ UNCHANGED <<provider, hcookies, remaining, draw_count, seeded, seed, stage_mark,
                   draws, resp_log, cf_calls, status_calls>>
    /\ UNCHANGED <<cdkVars, otherVars>>

WheelCheckinStatus ==
    /\ provider = "wheel" /\ hpc = "checkin_status"
    /\ \E r \in CheckinStatusResponses :
        IF r = "exc" THEN RaiseToExcept
        ELSE Goto(IF r = "checked" THEN "status" ELSE "checkin") /\ UNCHANGED hsession
    /\ UNCHANGED <<provider, hcookies, remaining, draw_count, seeded, seed, stage_mark,
                   draws, resp_log, cf_calls, status_calls>>
    /\ UNCHANGED <<cdkVars, otherVars>>

WheelCheckin ==
    /\ provider = "wheel" /\ hpc = "checkin"
    /\ \E r \in CheckinResponses :
        IF r.kind = "exc" THEN RaiseToExcept
        ELSE IF r.kind = "json" /\ r.success /\ r.code # ""
        THEN Yield(CodeItem(r.code), "status") /\ UNCHANGED hsession
        ELSE Goto("status") /\ UNCHANGED hsession
    /\ UNCHANGED <<provider, hcookies, remaining, draw_count, seeded, seed, stage_mark,
                   draws, resp_log, cf_calls, status_calls>>
    /\ UNCHANGED <<cdkVars, otherVars>>

\* remaining after the wheel status request
WheelSeed(r) == IF r.kind = "json" /\ r.remaining.t = "int" THEN r.remaining.v ELSE 0

WheelStatus ==
    /\ provider = "wheel" /\ hpc = "status"
    /\ status_calls' = status_calls + 1
    /\ \E r \in WheelStatusResponses :
        IF r.kind = "exc"
        THEN RaiseToExcept /\ UNCHANGED <<remaining, seeded, seed, stage_mark>>
        ELSE /\ remaining' = WheelSeed(r)
             /\ seeded' = TRUE
             /\ seed' = WheelSeed(r)
             /\ stage_mark' = Len(yielded)
             /\ Goto(IF LoopContinues(WheelSeed(r)) THEN "loop" ELSE "exit")
             /\ UNCHANGED hsession
    /\ UNCHANGED <<provider, hcookies, draw_count, draws, resp_log, cf_calls>>
    /\ UNCHANGED <<cdkVars, otherVars>>

\* variant: the echoed value is not read
WheelRemainingAfter_Mut(rem, r) == rem - 1

\* remaining = json_data.get("remaining", remaining - 1)
WheelRemainingAfter(rem, r) == IF r.remaining.t = "int" THEN r.remaining.v ELSE rem - 1

\* variant: the continue after the yield is missing, the loop is left
WheelAfterCode_Mut(code) == "return"

\* yield True, {"code": code}; continue
WheelAfterCode(code) == "loop"

WheelDraw ==
    /\ provider = "wheel" /\ hpc = "loop"
    /\ LoopContinues(remaining) /\ draws < MaxDraws
    /\ draws' = draws + 1
    /\ \E r \in WheelDrawResponses :
        /\ resp_log' = Append(resp_log, r)
        /\ IF r.kind = "exc"
           THEN RaiseToExcept /\ UNCHANGED <<remaining, draw_count>>
           ELSE IF r.kind = "json" /\ r.success
           THEN /\ remaining' = WheelRemainingAfter(remaining, r)
                /\ UNCHANGED hsession
                /\ IF r.code # ""
                   THEN /\ draw_count' = draw_count + 1
                        /\ Yield(CodeItem(r.code), WheelAfterCode(r.code))
                   ELSE \* falls through to the message test: both branches break
                        UNCHANGED draw_count /\ Goto("exit")
           ELSE \* other status, unparseable body, or success false: break
                Goto("exit") /\ UNCHANGED <<remaining, draw_count, hsession>>
    /\ UNCHANGED <<provider, hcookies, seeded, seed, stage_mark, cf_calls, status_calls>>
    /\ UNCHANGED <<cdkVars, otherVars>>

(***************************************************************************)
(* get_b4u_cdk                                                             *)
(***************************************************************************)
B4uStart ==
    /\ provider = "b4u" /\ hpc = "start"
    /\ IF ~hcookies
       THEN Yield(FailItem("no_cookies"), "return")
       ELSE Goto("cf")
    /\ UNCHANGED <<provider, hcookies, hsession, remaining, draw_count, seeded, seed,
                   stage_mark, draws, resp_log, cf_calls, status_calls>>
    /\ UNCHANGED <<cdkVars, otherVars>>

\* variant: only the presence of cookies is tested
CfUsable_Mut(r) == r \in {"ok", "nocf"}

\* not (not cf_cookies or "cf_clearance" not in cf_cookies)
CfUsable(r) == r = "ok"

B4uCf ==
    /\ provider = "b4u" /\ hpc = "cf"
    /\ cf_calls' = cf_calls + 1
    /\ \E r \in B4uCfResults :
        /\ hcf' = r
        /\ IF r = "exc" THEN Yield(FailItem("cf_exception"), "return") /\ UNCHANGED hsession
           ELSE IF ~CfUsable(r) THEN Yield(FailItem("no_cf"), "return") /\ UNCHANGED hsession
           ELSE Goto("status") /\ hsession' = "open"
    /\ UNCHANGED <<provider, hcookies, remaining, draw_count, seeded, seed, stage_mark,
                   draws, resp_log, status_calls>>
    /\ UNCHANGED <<htoken, hstatus, otherVars>>

\* the for loop over the lines of the status text
RECURSIVE FirstCount(_)
FirstCount(lines) ==
    IF lines = <<>> THEN 0
    ELSE IF Head(lines).t = "int" THEN Head(lines).v
    ELSE IF Head(lines).t = "nonint" THEN 1
    ELSE FirstCount(Tail(lines))

\* remaining after the lucky-draw status request
B4uSeed(r) == IF r.kind = "http" THEN 1 ELSE FirstCount(r.lines)

\* if remaining <= 0
NoDrawsLeft(rem) == rem <= 0

B4uStatus ==
    /\ provider = "b4u" /\ hpc = "status"
    /\ status_calls' = status_calls + 1
    /\ \E r \in B4uStatusResponses :
        IF r.kind = "exc"
        THEN RaiseToExcept /\ UNCHANGED <<remaining, seeded, seed, stage_mark>>
        ELSE /\ remaining' = B4uSeed(r)
             /\ seeded' = TRUE
             /\ seed' = B4uSeed(r)
             /\ stage_mark' = Len(yielded)
             /\ IF NoDrawsLeft(B4uSeed(r))
                THEN Yield(CodeItem(""), "return")
                ELSE Goto("loop")
             /\ UNCHANGED hsession
    /\ UNCHANGED <<provider, hcookies, draw_count, draws, resp_log, cf_calls>>
    /\ UNCHANGED <<cdkVars, otherVars>>

\* variant: the else of the for loop does not set remaining = 0
RECURSIVE B4uScan_Mut(_, _)
B4uScan_Mut(lines, rem) ==
    IF lines = <<>> THEN [remaining |-> rem, line |-> PlainLine("none")]
    ELSE IF Head(lines).t \in {"dict", "jsonval"} THEN [remaining |-> rem, line |-> Head(lines)]
    ELSE IF Head(lines).t = "num0" THEN B4uScan_Mut(Tail(lines), 0)
    ELSE B4uScan_Mut(Tail(lines), rem)

\* the for loop over the lines of a draw text, up to its break: the line it
\* stops at (NoLine: the else of the for) and remaining at that point
RECURSIVE B4uScan(_, _)
B4uScan(lines, rem) ==
    IF lines = <<>> THEN [remaining |-> 0, line |-> NoLine]
    ELSE IF Head(lines).t \in {"dict", "jsonval"} THEN [remaining |-> rem, line |-> Head(lines)]
    ELSE IF Head(lines).t = "num0" THEN B4uScan(Tail(lines), 0)
    ELSE B4uScan(Tail(lines), rem)

\* variant: the decrement is forgotten
B4uRemainingAfter_Mut(rem, line) == rem

\* remaining -= 1
B4uRemainingAfter(rem, line) == rem - 1

B4uDraw ==
    /\ provider = "b4u" /\ hpc = "loop"
    /\ LoopContinues(remaining) /\ draws < MaxDraws
    /\ draws' = draws + 1
    /\ \E r \in B4uDrawResponses :
        /\ resp_log' = Append(resp_log, r)
        /\ IF r.kind = "exc"
           THEN RaiseToExcept /\ UNCHANGED <<remaining, draw_count>>
           ELSE IF r.kind = "http"
           THEN /\ Yield(FailItem("http"), "stop")
                /\ UNCHANGED <<remaining, draw_count, hsession>>
           ELSE LET scan == B4uScan(r.lines, remaining)
                    line == scan.line
                IN  /\ UNCHANGED hsession
                    /\ IF line.t = "dict" /\ line.success
                       THEN /\ remaining' = B4uRemainingAfter(scan.remaining, line)
                            /\ IF line.code # ""
                               THEN /\ draw_count' = draw_count + 1
                                    /\ Yield(CodeItem(line.code), "loop")
                               ELSE UNCHANGED draw_count /\ Goto("loop")
                       ELSE IF line.t = "dict"
                       THEN /\ remaining' = scan.remaining
                            /\ Yield(FailItem("draw_failed"), "stop")
                            /\ UNCHANGED draw_count
                       ELSE /\ remaining' = scan.remaining
                            /\ Goto("loop")
                            /\ UNCHANGED draw_count
    /\ UNCHANGED <<provider, hcookies, seeded, seed, stage_mark, cf_calls, status_calls>>
    /\ UNCHANGED <<cdkVars, otherVars>>

(***************************************************************************)
(* Specification of a run of one CDK generator                             *)
(***************************************************************************)
Providers == {"wheel", "b4u"}

InitHarvest ==
    /\ MainOff
    /\ ExecIdle
    /\ SolverIdle([p \in Prefixes |-> EasyTable])
    /\ BitsIdle
    /\ provider \in Providers
    /\ hcookies \in BOOLEAN
    /\ hpc = "start" /\ after_yield = "none"
    /\ hsession = "none" /\ remaining = 0 /\ draw_count = 0 /\ yielded = <<>>
    /\ seeded = FALSE /\ seed = 0 /\ stage_mark = 0 /\ draws = 0 /\ resp_log = <<>>
    /\ cf_calls = 0 /\ status_calls = 0
    /\ PairIdle /\ DigestIdle /\ RunsIdle /\ LateIdle

NextHarvest ==
    \/ WheelStart
    \/ WheelCheckinStatus
    \/ WheelCheckin
    \/ WheelStatus
    \/ WheelDraw
    \/ B4uStart
    \/ B4uCf
    \/ B4uStatus
    \/ B4uDraw
    \/ Resume
    \/ HarvestFinish

SpecHarvest == InitHarvest /\ [][NextHarvest]_vars

(***************************************************************************)
(* Properties of the harvest loops                                         *)
(***************************************************************************)
\* the items yielded since the draw-status request
HarvestItems == SubSeq(yielded, stage_mark + 1, Len(yielded))

NoDrawsAtStart == seeded /\ seed <= 0

\* C9 as stated: when the status check gives remaining <= 0, no draw request
\* is sent and the harvest stage yields no item, in both generators.
C9_Original == NoDrawsAtStart => (draws = 0 /\ HarvestItems = <<>>)

\* C9 as amended: no draw request is sent; the wheel stage yields no item,
\* the lucky-draw generator yields the single item (True, {code: ""}).
C9_NoDrawWhenEmpty ==
    NoDrawsAtStart =>
        /\ draws = 0 /\ resp_log = <<>>
        /\ provider = "wheel" => HarvestItems = <<>>
        /\ provider = "b4u" => HarvestItems = <<CodeItem("")>>

C9_Witness ==
    /\ provider = "b4u" /\ hpc = "done" /\ NoDrawsAtStart /\ seed = 0
    /\ yielded = <<CodeItem("")>> /\ status_calls = 1

\* the items yielded by the loop itself
LoopItems == IF seeded /\ seed > 0 THEN HarvestItems ELSE <<>>

\* the line of a lucky-draw text that carries the outcome: the first "1:"
\* line that is JSON
EffectiveLine(lines) ==
    LET hits == {k \in DOMAIN lines : lines[k].t \in {"dict", "jsonval"}}
    IN  IF hits = {} THEN NoLine
        ELSE lines[CHOOSE k \in hits : \A m \in hits : k <= m]

\* the code a draw response awards, as a sequence of length 0 or 1
AwardOf(r) ==
    IF provider = "wheel"
    THEN IF r.kind = "json" /\ r.success /\ r.code # "" THEN <<r.code>> ELSE <<>>
    ELSE IF /\ r.kind = "text"
            /\ EffectiveLine(r.lines).t = "dict"
            /\ EffectiveLine(r.lines).success
            /\ EffectiveLine(r.lines).code # ""
         THEN <<EffectiveLine(r.lines).code>> ELSE <<>>

RECURSIVE AwardedCodes(_)
AwardedCodes(log) ==
    IF log = <<>> THEN <<>> ELSE AwardOf(Head(log)) \o AwardedCodes(Tail(log))

RECURSIVE YieldedCodes(_)
YieldedCodes(items) ==
    IF items = <<>> THEN <<>>
    ELSE (IF Head(items).ok THEN <<Head(items).code>> ELSE <<>>) \o YieldedCodes(Tail(items))

\* the responses of the scenario: award A, then award B echoing remaining 0
ScenarioFirst ==
    IF provider = "wheel" THEN WJson(TRUE, "A", NoVal(Absent), "")
    ELSE [kind |-> "text", lines |-> <<AwardLine("A", NoVal(Absent))>>]
ScenarioSecond ==
    IF provider = "wheel" THEN WJson(TRUE, "B", IntVal(0), "")
    ELSE [kind |-> "text", lines |-> <<AwardLine("B", IntVal(0))>>]

ScenarioAB ==
    /\ seeded /\ seed = 2 /\ Len(resp_log) >= 2
    /\ resp_log[1] = ScenarioFirst /\ resp_log[2] = ScenarioSecond

CodesInDrawOrder ==
    /\ YieldedCodes(LoopItems) = AwardedCodes(resp_log)
    /\ ScenarioAB => /\ draws = 2 /\ Len(resp_log) = 2
                     /\ LoopItems = <<CodeItem("A"), CodeItem("B")>>

DrawStep == draws' = draws + 1
NewResp == resp_log'[Len(resp_log')]

\* the response is an award (success true), with or without a code
Awarded(r) ==
    IF provider = "wheel" THEN r.kind = "json" /\ r.success
    ELSE /\ r.kind = "text"
         /\ EffectiveLine(r.lines).t = "dict"
         /\ EffectiveLine(r.lines).success

\* the remaining value the response carries
EchoOf(r) == IF provider = "wheel" THEN r.remaining ELSE EffectiveLine(r.lines).remaining

\* a "1:" line that is no JSON but reads as the integer 0 comes before the
\* line that carries the outcome
ZeroLineBefore(lines) ==
    \E k \in DOMAIN lines :
        /\ lines[k].t = "num0"
        /\ \A m \in 1 .. k : lines[m].t \notin {"dict", "jsonval"}

\* C11 as stated: in both generators, after an awarded draw remaining is the
\* value the response echoes when it carries one, and remaining - 1 otherwise.
C11_Original ==
    [][DrawStep /\ Awarded(NewResp) =>
          remaining' = IF EchoOf(NewResp).t = "int" THEN EchoOf(NewResp).v
                       ELSE remaining - 1]_vars

\* C11 as amended: the wheel loop sets remaining to the echoed value when the
\* award carries one and decrements it by 1 otherwise; the lucky-draw loop
\* never reads an echoed value and always decrements by 1 (from 0 when an
\* earlier line of the same response read as the integer 0).
C11_RemainingAfterAward ==
    [][DrawStep /\ Awarded(NewResp) =>
          IF provider = "wheel"
          THEN remaining' = IF EchoOf(NewResp).t = "int" THEN EchoOf(NewResp).v
                            ELSE remaining - 1
          ELSE remaining' = (IF ZeroLineBefore(NewResp.lines) THEN 0 ELSE remaining) - 1]_vars

C11_Witness ==
    /\ provider = "wheel" /\ seeded /\ seed = 2 /\ draws = 1
    /\ resp_log = <<WJson(TRUE, "A", IntVal(0), "")>>
    /\ remaining = 0 /\ hpc = "done" /\ yielded = <<CodeItem("A")>>

\* the response is unsuccessful and its message matches a 'no more attempts'
\* pattern
ExhaustedResp(r) ==
    IF provider = "wheel"
    THEN r.kind = "json" /\ ~r.success /\ WheelIsExhausted(r.message)
    ELSE /\ r.kind = "text"
         /\ EffectiveLine(r.lines).t = "dict"
         /\ ~EffectiveLine(r.lines).success
         /\ WheelIsExhausted(EffectiveLine(r.lines).message)

FailuresIn(items) == {i \in DOMAIN items : ~items[i].ok}

LoopLeft == hpc \in {"exit", "done"} \/ (hpc = "suspended" /\ after_yield = "stop")

\* C12 as stated: in both generators an unsuccessful draw whose message
\* matches the 'no more attempts' patterns is the last draw and no failure
\* item is yielded.
C12_Original ==
    \A k \in DOMAIN resp_log :
        ExhaustedResp(resp_log[k]) =>
            k = Len(resp_log) /\ FailuresIn(LoopItems) = {}

\* C12 as amended: such a response is the last draw in both generators; the
\* wheel loop yields no failure item for it, the lucky-draw loop, which
\* matches no message, yields exactly one failure item for it.
C12_ExhaustedStops ==
    \A k \in DOMAIN resp_log :
        ExhaustedResp(resp_log[k]) =>
            /\ k = Len(resp_log) /\ draws = k
            /\ provider = "wheel" => FailuresIn(LoopItems) = {} /\ LoopLeft
            /\ provider = "b4u" =>
                   /\ FailuresIn(LoopItems) = {Len(LoopItems)}
                   /\ Last(LoopItems) = FailItem("draw_failed")
                   /\ LoopLeft \/ (hpc = "loop" /\ remaining = 0)

C12_Witness ==
    /\ provider = "b4u" /\ hpc = "done" /\ seeded /\ seed = 2 /\ draws = 2
    /\ resp_log = <<[kind |-> "text", lines |-> <<AwardLine("A", NoVal(Absent))>>],
                    [kind |-> "text", lines |-> <<FailLine("No more spins")>>]>>
    /\ yielded = <<CodeItem("A"), FailItem("draw_failed")>>
    /\ remaining = 0

\* the response is an unsuccessful one with a message that matches no
\* 'no more attempts' pattern
RefusedResp(r) ==
    IF provider = "wheel"
    THEN r.kind = "json" /\ ~r.success /\ ~WheelIsExhausted(r.message)
    ELSE /\ r.kind = "text"
         /\ EffectiveLine(r.lines).t = "dict"
         /\ ~EffectiveLine(r.lines).success
         /\ ~WheelIsExhausted(EffectiveLine(r.lines).message)

\* the body cannot be parsed: response_resolve gives None / no "1:" line of
\* the text is JSON
UnparseableResp(r) ==
    IF provider = "wheel" THEN r.kind = "null"
    ELSE r.kind = "text" /\ EffectiveLine(r.lines) = NoLine

\* an HTTP status the loop does not expect
HttpErrorResp(r) == r.kind = "http"

FailedResp(r) == RefusedResp(r) \/ UnparseableResp(r) \/ HttpErrorResp(r)

\* C13 as stated: in both generators a draw that fails for a reason other
\* than exhaustion is the last draw and the caller receives a failure item
\* for it.
C13_Original ==
    \A k \in DOMAIN resp_log :
        FailedResp(resp_log[k]) =>
            /\ k = Len(resp_log)
            /\ LoopItems # <<>> /\ ~Last(LoopItems).ok

\* C13 as amended: such a draw is the last draw in both generators.  The
\* wheel loop yields no failure item for it.  The lucky-draw loop yields
\* exactly one failure item for an unsuccessful response and for an
\* unexpected HTTP status, and none for a body it cannot parse.
C13_FailureStops ==
    \A k \in DOMAIN resp_log :
        FailedResp(resp_log[k]) =>
            /\ k = Len(resp_log) /\ draws = k
            /\ LoopLeft \/ (hpc = "loop" /\ remaining = 0)
            /\ provider = "wheel" => FailuresIn(LoopItems) = {}
            /\ provider = "b4u" /\ ~UnparseableResp(resp_log[k]) =>
                   /\ FailuresIn(LoopItems) = {Len(LoopItems)}
                   /\ Last(LoopItems) =
                          FailItem(IF HttpErrorResp(resp_log[k]) THEN "http" ELSE "draw_failed")
            /\ provider = "b4u" /\ UnparseableResp(resp_log[k]) =>
                   FailuresIn(LoopItems) = {} /\ remaining = 0

C13_Witness ==
    /\ provider = "wheel" /\ hpc = "done" /\ seeded /\ seed = 2 /\ draws = 2
    /\ resp_log = <<WJson(TRUE, "A", NoVal(Absent), ""),
                    WJson(FALSE, "", NoVal(Absent), "Server busy")>>
    /\ yielded = <<CodeItem("A")>> /\ remaining = 1

\* after this step the loop is at its head again, about to send a request
LoopGoesOn ==
    /\ hpc' = "loop" \/ (hpc' = "suspended" /\ after_yield' = "loop")
    /\ remaining' > 0

\* C14: every iteration of a harvest loop that does not leave the loop
\* strictly decreases remaining, so the loop ends for every sequence of
\* responses.
C14_StrictDecrease == [][DrawStep /\ LoopGoesOn => remaining' < remaining]_vars

\* C15: when a draw request is sent, every code obtained by the earlier
\* draws has been yielded and the consumer has taken it (the generator was
\* resumed); a code is yielded in the step that receives it.
C15_YieldBeforeNextDraw ==
    [][DrawStep =>
          /\ hpc = "loop" /\ after_yield = "none"
          /\ YieldedCodes(LoopItems) = AwardedCodes(resp_log)
          /\ AwardOf(NewResp) # <<>> =>
                 /\ hpc' = "suspended"
                 /\ yielded' = Append(yielded, CodeItem(AwardOf(NewResp)[1]))]_vars

C15_Witness ==
    /\ provider = "b4u" /\ hpc = "suspended" /\ after_yield = "loop" /\ draws = 2
    /\ resp_log = <<[kind |-> "text", lines |-> <<AwardLine("A", NoVal(Absent))>>],
                    [kind |-> "text", lines |-> <<AwardLine("B", IntVal(0))>>]>>
    /\ yielded = <<CodeItem("A"), CodeItem("B")>>

(***************************************************************************)
(* The two generators fed the same draw outcomes: the wheel runs first,    *)
(* then the lucky draw starts from the same remaining                      *)
(***************************************************************************)
\* what a draw response says, apart from its encoding
Outcome(kind, code, echo) == [kind |-> kind, code |-> code, echo |-> echo]
PlainOutcome(kind) == Outcome(kind, "", NoVal(Absent))

Outcomes ==
    {Outcome("award", "A", NoVal(Absent)), Outcome("award", "B", IntVal(0)),
     Outcome("award", "A", IntVal(MaxRemaining)), Outcome("award", "", NoVal(Absent)),
     PlainOutcome("exhausted"), PlainOutcome("failed"), PlainOutcome("http")}

OutcomeOf(r) ==
    IF r.kind = "http" THEN PlainOutcome("http")
    ELSE IF provider = "wheel"
    THEN IF r.kind # "json" THEN PlainOutcome("other")
         ELSE IF r.success THEN Outcome("award", r.code, r.remaining)
         ELSE PlainOutcome(IF WheelIsExhausted(r.message) THEN "exhausted" ELSE "failed")
    ELSE IF r.kind # "text" \/ ZeroLineBefore(r.lines) \/ EffectiveLine(r.lines).t # "dict"
         THEN PlainOutcome("other")
         ELSE IF EffectiveLine(r.lines).success
         THEN Outcome("award", EffectiveLine(r.lines).code, EffectiveLine(r.lines).remaining)
         ELSE PlainOutcome(IF WheelIsExhausted(EffectiveLine(r.lines).message)
                           THEN "exhausted" ELSE "failed")

\* the server answers the draw of this step as the feed says
Fed == OutcomeOf(NewResp) = feed[draws']

FedWheelDraw == WheelDraw /\ Fed
FedB4uDraw == B4uDraw /\ Fed

\* the lucky draw is given the remaining the wheel was given
FedB4uStatus == B4uStatus /\ (seeded' => seed' = first.seed)

\* the wheel generator has ended: its draws and items are kept and
\* get_b4u_cdk is called
SecondRun ==
    /\ provider = "wheel" /\ hpc = "done" /\ seeded /\ first = NoFirst
    /\ first' = [seed |-> seed, draws |-> draws, items |-> HarvestItems]
    /\ provider' = "b4u"
    /\ hpc' = "start" /\ after_yield' = "none"
    /\ hsession' = "none" /\ remaining' = 0 /\ draw_count' = 0 /\ yielded' = <<>>
    /\ seeded' = FALSE /\ seed' = 0 /\ stage_mark' = 0 /\ draws' = 0 /\ resp_log' = <<>>
    /\ cf_calls' = 0 /\ status_calls' = 0
    /\ UNCHANGED <<hcookies, feed>>
    /\ UNCHANGED <<mainVars, execVars, solverVars, bitsVars, digestVars, runVars, lateVars>>

InitPair ==
    /\ MainOff
    /\ ExecIdle
    /\ SolverIdle([p \in Prefixes |-> EasyTable])
    /\ BitsIdle
    /\ provider = "wheel"
    /\ hcookies = TRUE
    /\ hpc = "start" /\ after_yield = "none"
    /\ hsession = "none" /\ remaining = 0 /\ draw_count = 0 /\ yielded = <<>>
    /\ seeded = FALSE /\ seed = 0 /\ stage_mark = 0 /\ draws = 0 /\ resp_log = <<>>
    /\ cf_calls = 0 /\ status_calls = 0
    /\ feed \in [1 .. MaxDraws -> Outcomes]
    /\ first = NoFirst
    /\ DigestIdle /\ RunsIdle /\ LateIdle

NextPair ==
    \/ WheelStart
    \/ WheelCheckinStatus
    \/ WheelCheckin
    \/ WheelStatus
    \/ FedWheelDraw
    \/ SecondRun
    \/ B4uStart
    \/ B4uCf
    \/ FedB4uStatus
    \/ FedB4uDraw
    \/ Resume
    \/ HarvestFinish

SpecPair == InitPair /\ [][NextPair]_vars

(***************************************************************************)
(* Properties of the two generators fed the same outcomes                  *)
(***************************************************************************)
\* an item as success / failure and code, without the text of the error
RECURSIVE ItemShapes(_)
ItemShapes(items) ==
    IF items = <<>> THEN <<>>
    ELSE <<[ok |-> Head(items).ok, code |-> Head(items).code]>> \o ItemShapes(Tail(items))

\* get_b4u_cdk has ended after the wheel generator, both given a remaining
BothDone == provider = "b4u" /\ hpc = "done" /\ first # NoFirst /\ seeded

\* C16 as stated: fed the same initial remaining and the same outcomes, the
\* two loops make the same number of draw requests and yield the same
\* sequence of success / failure items.
C16_Original ==
    BothDone => draws = first.draws /\ ItemShapes(HarvestItems) = ItemShapes(first.items)

\* from draw k on, with rem draws remaining, every outcome until remaining
\* runs out is an award with a code that echoes nothing or echoes rem - 1
RECURSIVE PlainAwards(_, _)
PlainAwards(k, rem) ==
    \/ rem <= 0
    \/ /\ k \in DOMAIN feed
       /\ feed[k].kind = "award" /\ feed[k].code # ""
       /\ feed[k].echo.t = "int" => feed[k].echo.v = rem - 1
       /\ PlainAwards(k + 1, rem - 1)

RECURSIVE FedCodes(_, _)
FedCodes(k, n) == IF n <= 0 THEN <<>> ELSE <<CodeItem(feed[k].code)>> \o FedCodes(k + 1, n - 1)

\* C16 as amended: from a remaining > 0, the two loops agree (one draw per
\* remaining unit, the same code items) when every outcome is an award with
\* a code whose echoed remaining, if any, is the decremented one; when the
\* first outcome is exhausted, failed or an HTTP error both make one draw,
\* the wheel yields nothing and the lucky draw yields one failure item; when
\* the first of two remaining draws is an award without a code the wheel
\* stops after it and the lucky draw goes on.
C16_AgreeOnAwards ==
    BothDone /\ seed > 0 =>
        /\ PlainAwards(1, seed) =>
               /\ draws = seed /\ first.draws = seed
               /\ HarvestItems = FedCodes(1, seed) /\ first.items = HarvestItems
        /\ feed[1].kind \in {"exhausted", "failed", "http"} =>
               /\ draws = 1 /\ first.draws = 1
               /\ first.items = <<>>
               /\ ItemShapes(HarvestItems) = <<[ok |-> FALSE, code |-> Absent]>>
        /\ feed[1] = Outcome("award", "", NoVal(Absent)) /\ seed >= 2 =>
               first.draws = 1 /\ draws >= 2

C16_Witness ==
    /\ BothDone /\ seed = 2 /\ draws = 2 /\ first.draws = 2
    /\ feed[1] = Outcome("award", "A", NoVal(Absent))
    /\ feed[2] = Outcome("award", "B", IntVal(0))
    /\ HarvestItems = <<CodeItem("A"), CodeItem("B")>> /\ first.items = HarvestItems

(***************************************************************************)
(* Specification of generate_checkin_hash alone: two results dicts         *)
(***************************************************************************)
\* results of successful accounts: already signed with reward 5 or 7, and a
\* fresh check-in with reward 5
DigestResults ==
    {RetRec(TRUE, "5", Absent, Absent, "", Absent, TRUE, NoInt, NoInt, Absent),
     RetRec(TRUE, "7", Absent, Absent, "", Absent, TRUE, NoInt, NoInt, Absent),
     RetRec(TRUE, "5", "0", "1", "gold", "", FALSE, 2, 2, Absent)}

\* the keys of a dict in insertion order: no key twice
KeySeqs ==
    UNION {{ks \in [1 .. n -> 1 .. MaxAccounts] :
               \A i, j \in 1 .. n : i # j => ks[i] # ks[j]} : n \in 0 .. MaxAccounts}

ResultsDicts ==
    UNION {{[i \in DOMAIN ks |-> [key |-> ks[i], value |-> vs[i]]] :
               vs \in [DOMAIN ks -> DigestResults]} : ks \in KeySeqs}

InitDigest ==
    /\ MainOff
    /\ ExecIdle
    /\ SolverIdle([p \in Prefixes |-> EasyTable])
    /\ BitsIdle
    /\ HarvestIdle
    /\ PairIdle /\ RunsIdle /\ LateIdle
    /\ dig_a \in ResultsDicts /\ dig_b \in ResultsDicts
    /\ hash_a = NoHash /\ hash_b = NoHash

DigestA ==
    /\ hash_a = NoHash
    /\ hash_a' = generate_checkin_hash(dig_a)
    /\ UNCHANGED <<dig_a, dig_b, hash_b>>
    /\ UNCHANGED <<mainVars, execVars, solverVars, bitsVars,
                   harvestVars, pairVars, runVars, lateVars>>

DigestB ==
    /\ hash_b = NoHash
    /\ hash_b' = generate_checkin_hash(dig_b)
    /\ UNCHANGED <<dig_a, dig_b, hash_a>>
    /\ UNCHANGED <<mainVars, execVars, solverVars, bitsVars,
                   harvestVars, pairVars, runVars, lateVars>>

NextDigest == DigestA \/ DigestB

SpecDigest == InitDigest /\ [][NextDigest]_vars

(***************************************************************************)
(* Properties of generate_checkin_hash                                     *)
(***************************************************************************)
\* the mapping account key -> reward_final of a results dict
RewardMap(d) == {<<d[i].key, d[i].value.reward_final>> : i \in DOMAIN d}
KeysOf(d) == {d[i].key : i \in DOMAIN d}
RewardAt(d, k) == (CHOOSE i \in DOMAIN d : d[i].key = k)

BothHashed == hash_a # NoHash /\ hash_b # NoHash

\* C17: two results dicts with the same keys and the same reward_final per
\* key have the same digest, whatever the insertion order and the other
\* fields of the results.
C17_DigestOfRewardsOnly ==
    BothHashed /\ RewardMap(dig_a) = RewardMap(dig_b) => hash_a = hash_b

C17_Witness ==
    /\ BothHashed /\ hash_a = hash_b /\ hash_a # EmptyHash
    /\ KeysOf(dig_a) = {1, 2} /\ dig_a[1].key = 1 /\ dig_b[1].key = 2
    /\ dig_a[1].value.tier_name = "" /\ dig_b[2].value.tier_name = "gold"
    /\ dig_a[2].value.reward_final = "7"

\* some account successful in both runs has a different reward
SharedRewardDiffers ==
    \E k \in KeysOf(dig_a) \cap KeysOf(dig_b) :
        dig_a[RewardAt(dig_a, k)].value.reward_final
            # dig_b[RewardAt(dig_b, k)].value.reward_final

\* C18 as stated: the digests of two runs differ if and only if a
\* successful reward value differs; a change only in which accounts failed
\* does not change the digest.
C18_Original == BothHashed => (hash_a # hash_b <=> SharedRewardDiffers)

\* C18 as amended: the digests differ if and only if the mappings from
\* successful account to reward differ, in a reward value or in the set of
\* successful accounts.
C18_DigestDiffers ==
    BothHashed => (hash_a # hash_b <=> RewardMap(dig_a) # RewardMap(dig_b))

C18_Witness ==
    /\ BothHashed /\ hash_a # hash_b /\ hash_b # EmptyHash
    /\ KeysOf(dig_a) = {1, 2} /\ KeysOf(dig_b) = {1}
    /\ ~SharedRewardDiffers

(***************************************************************************)
(* Properties of the notification gate                                     *)
(***************************************************************************)
RunEnded == mpc = "exited" /\ sids # <<>>

\* C19: in a run with at least one account a notification is pushed if and
\* only if no prior digest exists or the new digest differs from it, at
\* most once, whatever the success count and the exit code; these only
\* choose the title.
C19_NotifyGate ==
    RunEnded =>
        /\ pushed # <<>> <=>
               (last_hash = EmptyHash \/ generate_checkin_hash(current_info) # last_hash)
        /\ Len(pushed) <= 1
        /\ pushed # <<>> =>
               pushed[1] = IF success_count = Len(sids) THEN "success" ELSE "alert"

C19_Witness ==
    /\ RunEnded /\ Len(sids) = 2 /\ success_count = 1 /\ exit_code = 0
    /\ last_hash # EmptyHash /\ generate_checkin_hash(current_info) = last_hash
    /\ pushed = <<>>

(***************************************************************************)
(* Specification of successive runs of main over the same digest file;     *)
(* execute is taken as one step that returns one of its results            *)
(***************************************************************************)
\* what execute can return: a failure, or a success with a reward
ExecuteResults == {Failure(ERR_ME)} \cup DigestResults

\* success, result = await checkin.execute(sid, tier=tier)
ExecuteReturns ==
    /\ mpc = "loop" /\ epc = "cf"
    /\ \E r \in ExecuteResults : ret' = r
    /\ epc' = "ret"
    /\ UNCHANGED <<calls, cf, session, me_resp, me_data, hps, challenge_data, submit_data,
                   chal_req, chal_resp, submit_req, submit_resp>>
    /\ UNCHANGED <<mainVars, solverVars, bitsVars, harvestVars,
                   pairVars, digestVars, runVars, lateVars>>

\* the process has ended; the scheduler starts the script again
NextRun ==
    /\ mpc = "exited" /\ sids # <<>> /\ run_no < MaxRuns
    /\ run_no' = run_no + 1
    /\ prev' = [info |-> current_info, processed |-> processed, exit |-> exit_code]
    /\ mpc' = "start"
    /\ idx' = 0 /\ success_count' = 0 /\ notification_content' = <<>>
    /\ current_info' = <<>> /\ last_hash' = EmptyHash /\ pushed' = <<>>
    /\ events' = <<>> /\ main_ret' = NoInt /\ exit_code' = NoInt /\ processed' = <<>>
    /\ UNCHANGED <<sids, tier, stored_hash>>
    /\ UNCHANGED <<execVars, solverVars, bitsVars, harvestVars, pairVars, digestVars,
                   lateVars>>

InitRuns ==
    /\ sids \in {[k \in 1 .. n |-> "sid"] : n \in 0 .. MaxAccounts}
    /\ tier \in Tiers
    /\ stored_hash \in PriorHashes
    /\ mpc = "start"
    /\ MainIdle
    /\ ExecIdle
    /\ SolverIdle([p \in Prefixes |-> EasyTable])
    /\ BitsIdle
    /\ HarvestIdle
    /\ PairIdle /\ DigestIdle /\ RunsIdle /\ LateIdle

NextRuns ==
    \/ MainStart
    \/ AccountBegin
    \/ ConstructRaises
    \/ ExecuteReturns
    \/ AccountEnd
    \/ MainFinish
    \/ NextRun

SpecRuns == InitRuns /\ [][NextRuns]_vars

(***************************************************************************)
(* Properties of successive runs                                           *)
(***************************************************************************)
\* this run has ended with the per-account results of the run before
SameAsBefore ==
    /\ RunEnded /\ run_no >= 2
    /\ current_info = prev.info /\ processed = prev.processed

\* C20: a run that produces the same per-account results as the run before
\* it sends no notification, also when every account failed in both.
C20_NoRepeatedNotification == SameAsBefore => pushed = <<>>

(***************************************************************************)
(* The persisted digest within one run                                     *)
(***************************************************************************)
\* how often the run has performed the step e
CountOf(e) == Cardinality({i \in 1 .. Len(events) : events[i] = e})

\* C21: a run that processes accounts reads the persisted digest exactly
\* once, before the first account, and writes it exactly once, after the
\* last account; it is neither read nor written in between.
C21_ReadOnceWriteOnce ==
    RunEnded =>
        /\ CountOf("load") = 1 /\ events[1] = "load"
        /\ CountOf("save") = 1 /\ Last(events) = "save"

(***************************************************************************)
(* CheckIn.execute: the failure paths                                      *)
(***************************************************************************)
\* _get_cf_clearance delivered (None, None): the collaborator returned no
\* cookies and no headers, or it raised
NoUsableSession == cf = "none" /\ "cf" \in Range(calls)

ExecuteReturned == epc = "ret"

StepErrors == {ERR_ME, ERR_CHALLENGE, ERR_SUBMIT, ERR_FLOW}

\* C22 as stated: without a usable session execute fails the account with
\* an error of its own and sends no status, challenge or submit request.
C22_Original ==
    NoUsableSession =>
        /\ Range(calls) \cap {"me", "challenge", "submit"} = {}
        /\ ExecuteReturned => ~ret.ok /\ ret.error \notin StepErrors

\* C22: without a usable session execute still builds a session and sends
\* the status request; when it returns, the account has failed with the
\* status error if the status was unusable, and has succeeded if the status
\* says that the account is signed in already.
C22_NoSessionGoesOn ==
    (NoUsableSession /\ ExecuteReturned) =>
        /\ Len(calls) >= 3 /\ SubSeq(calls, 1, 3) = <<"cf", "build", "me">>
        /\ (me_data = MeNone) <=> (ret = Failure(ERR_ME))
        /\ me_data # MeNone /\ me_data.signed => ret.ok
        /\ ret.ok \/ ret.error \in StepErrors

C22_Witness ==
    NoUsableSession /\ ExecuteReturned /\ ret.ok /\ "submit" \in Range(calls)

\* the status request was sent and its response is absent (no body, an
\* exception) or malformed (no user object in it)
StatusUnusable ==
    /\ "me" \in Range(calls)
    /\ me_resp.kind # "json" \/ me_resp.user # "map"

\* C23: when the status response is absent or malformed, execute returns a
\* failure for the account; it runs neither the benchmark nor the solver and
\* sends neither a challenge request nor a submit request.
C23_StatusFailureStops ==
    StatusUnusable =>
        /\ Range(calls) \cap {"bench", "challenge", "nonce", "submit"} = {}
        /\ hps = NoInt /\ chal_req = NoReq /\ submit_req = NoSubmitReq /\ spc = "idle"
        /\ ExecuteReturned => ret = Failure(ERR_ME)

C23_Witness ==
    /\ StatusUnusable /\ ExecuteReturned
    /\ me_resp.kind = "json" /\ me_resp.signed
    /\ ret = Failure(ERR_ME) /\ "close" \in Range(calls)

\* the challenge request was sent and its response lacks the challenge, the
\* challenge id or the difficulty
ChallengeIncomplete ==
    /\ "challenge" \in Range(calls)
    /\ \/ chal_resp.challenge = Absent
       \/ chal_resp.challengeId = Absent
       \/ chal_resp.difficulty.t = Absent

\* C24: when the challenge response lacks the challenge, the difficulty or
\* the challenge id, execute ends the account in the challenge failure:
\* calculate_nonce is not invoked and no submit request is sent.
C24_ChallengeFailureStops ==
    ChallengeIncomplete =>
        /\ Range(calls) \cap {"nonce", "submit"} = {}
        /\ spc = "idle" /\ submit_req = NoSubmitReq
        /\ ExecuteReturned => ret = Failure(ERR_CHALLENGE)

C24_Witness ==
    /\ ChallengeIncomplete /\ ExecuteReturned
    /\ chal_resp.kind = "json" /\ chal_resp.challenge # Absent
    /\ ret = Failure(ERR_CHALLENGE) /\ "close" \in Range(calls)

\* the submit request was sent and its response has no rewardFinal
SubmitLacksReward ==
    /\ "submit" \in Range(calls)
    /\ submit_resp.rewardFinal = Absent

\* the loop of main takes the result of execute for the current account
TakesResult == mpc = "loop" /\ ExecuteReturned /\ idx' = idx + 1

\* C25: when the submit response lacks rewardFinal, execute returns the
\* submit failure; main does not count the account as successful and adds no
\* entry for it to the results map the digest is computed from.
C25_SubmitFailureNotCounted ==
    /\ [](SubmitLacksReward /\ ExecuteReturned => ret = Failure(ERR_SUBMIT))
    /\ [][SubmitLacksReward /\ TakesResult =>
              /\ success_count' = success_count
              /\ current_info' = current_info
              /\ generate_checkin_hash(current_info') = generate_checkin_hash(current_info)
              /\ Last(processed') = [account |-> idx + 1, outcome |-> "failure"]]_vars

C25_Witness ==
    /\ SubmitLacksReward /\ ExecuteReturned
    /\ submit_resp.kind = "json"
    /\ ret = Failure(ERR_SUBMIT) /\ success_count = 1

\* the request of a step raised a transport-level exception
StatusRaised == "me" \in Range(calls) /\ me_resp.kind = "exc"
ChallengeRaised == "challenge" \in Range(calls) /\ chal_resp.kind = "exc"
SubmitRaised == "submit" \in Range(calls) /\ submit_resp.kind = "exc"
RequestRaised == StatusRaised \/ ChallengeRaised \/ SubmitRaised

\* C26 as stated: a transport exception of a request ends execute in the
\* failure that carries the exception message, not in the failure of the
\* step.
C26_Original ==
    (RequestRaised /\ ExecuteReturned) => ret = Failure(ERR_FLOW)

\* C26: a transport exception of the status, challenge or submit request is
\* caught by the helper of that step; execute returns the failure of the
\* step, as for a missing response, and the exception does not leave
\* execute: the account ends with a returned failure.
C26_RequestExceptionIsStepFailure ==
    /\ [](ExecuteReturned =>
              /\ StatusRaised => ret = Failure(ERR_ME)
              /\ ChallengeRaised => ret = Failure(ERR_CHALLENGE)
              /\ SubmitRaised => ret = Failure(ERR_SUBMIT))
    /\ [][RequestRaised /\ idx' = idx + 1 =>
              /\ ExecuteReturned
              /\ Last(processed') = [account |-> idx + 1, outcome |-> "failure"]]_vars

C26_Witness ==
    SubmitRaised /\ ExecuteReturned /\ ret = Failure(ERR_SUBMIT) /\ session = "closed"

\* C27: execute never retries: the session collaborator is called exactly
\* once and the status, challenge and submit endpoints are requested at most
\* once each, whatever the responses and failures.
C27_NoRetry ==
    /\ \A s \in {"me", "challenge", "submit"} : CallsOf(s) <= 1
    /\ CallsOf("cf") <= 1
    /\ ExecuteReturned => CallsOf("cf") = 1

C27_Witness ==
    /\ ExecuteReturned /\ ~ret.ok
    /\ CallsOf("cf") = 1 /\ CallsOf("me") = 1 /\ CallsOf("challenge") = 1
    /\ CallsOf("submit") = 1

\* C28: a submit request carries the challengeId of the challenge this
\* execute obtained, the nonce calculate_nonce returned for the prefix and
\* the difficulty of that challenge, and the tier of the challenge request.
C28_SubmitMatchesChallenge ==
    "submit" \in Range(calls) =>
        /\ CallsOf("challenge") = 1
        /\ submit_req.challengeId = chal_resp.challengeId
        /\ sprefix = chal_resp.challenge /\ sdiff = chal_resp.difficulty
        /\ spc = "ret" /\ submit_req.nonce = solve_ret.nonce
        /\ solve_ret.hash = H[chal_resp.challenge][submit_req.nonce]
        /\ submit_req.tier = chal_req.tier /\ submit_req.tier = tier

C28_Witness ==
    /\ "submit" \in Range(calls) /\ ExecuteReturned /\ ret.ok
    /\ tier # DEFAULT_TIER /\ submit_req.nonce > 0 /\ chal_resp.challenge = "c2"

(***************************************************************************)
(* The exit status of the process                                          *)
(***************************************************************************)
\* the accounts of a finished batch that succeeded
Succeeded(done) == {i \in DOMAIN done : done[i].outcome = "success"}

\* C29: when the account loop has completed, the process exits with status
\* 0 if and only if at least one account succeeded, and with a non-zero
\* status when every account failed.
C29_ExitZeroIffSomeSuccess ==
    RunEnded =>
        /\ Len(processed) = Len(sids)
        /\ (exit_code = 0) <=> (Succeeded(processed) # {})
        /\ Succeeded(processed) = {} => exit_code > 0

C29_Witness ==
    /\ RunEnded /\ exit_code = 0
    /\ Succeeded(processed) # {} /\ Succeeded(processed) # DOMAIN processed

\* the three outcomes of a batch
BatchOutcome(done) ==
    IF Succeeded(done) = DOMAIN done THEN "all"
    ELSE IF Succeeded(done) # {} THEN "partial"
    ELSE "none"

TwoRunsEnded == RunEnded /\ run_no >= 2

\* C30 as stated: two runs with different batch outcomes ('all succeeded',
\* 'some but not all succeeded', 'all failed') exit with different statuses.
C30_Original ==
    (TwoRunsEnded /\ BatchOutcome(processed) # BatchOutcome(prev.processed)) =>
        exit_code # prev.exit

\* C30: the exit status tells two batch outcomes apart, not three: two runs
\* exit with the same status exactly when both or neither had a successful
\* account, so 'all succeeded' and 'some but not all succeeded' both exit
\* with 0 and only 'all failed' exits with 1.
C30_TwoStatuses ==
    TwoRunsEnded =>
        /\ (exit_code = prev.exit) <=>
               ((BatchOutcome(processed) = "none") <=> (BatchOutcome(prev.processed) = "none"))
        /\ exit_code = (IF BatchOutcome(processed) = "none" THEN 1 ELSE 0)

C30_Witness ==
    /\ TwoRunsEnded
    /\ BatchOutcome(prev.processed) = "all" /\ BatchOutcome(processed) = "partial"
    /\ prev.exit = 0 /\ exit_code = 0

(***************************************************************************)
(* Runs without a success, runs without an account                         *)
(***************************************************************************)
NoneSucceeded == RunEnded /\ Succeeded(processed) = {}

\* C36: when no account succeeds in a run, generate_checkin_hash returns the
\* empty string and save_balance_hash is not called: the digest stored
\* before the run is still the stored digest after it.
C36_DigestSurvivesAllFailed ==
    NoneSucceeded =>
        /\ generate_checkin_hash(current_info) = EmptyHash
        /\ "save" \notin Range(events)
        /\ stored_hash = last_hash

C36_Witness ==
    /\ NoneSucceeded /\ Len(processed) = 2
    /\ stored_hash # EmptyHash /\ stored_hash = last_hash

NoAccountsRun == mpc = "exited" /\ sids = <<>>

\* C37: when no account can be loaded, the run processes no account, reads
\* and writes no digest, sends no notification, and the process exits with a
\* non-zero status.
C37_NoAccountsExitNonZero ==
    NoAccountsRun =>
        /\ processed = <<>> /\ events = <<>> /\ pushed = <<>>
        /\ exit_code > 0

(***************************************************************************)
(* CheckIn.execute: the transport session                                  *)
(***************************************************************************)
\* no request is sent on the session after it was closed
NoRequestAfterClose ==
    \A i, j \in DOMAIN calls :
        (i < j /\ calls[i] = "close") => calls[j] \notin {"me", "challenge", "submit"}

\* C38: on every path out of execute after the session was built (already
\* signed, status failure, challenge failure, submit failure, success,
\* exception) the session is closed exactly once, and no request is sent on
\* it after it was closed.
C38_SessionClosedOnce ==
    /\ CallsOf("close") <= 1
    /\ NoRequestAfterClose
    /\ session = "closed" <=> CallsOf("close") = 1
    /\ ExecuteReturned =>
           /\ CallsOf("build") = 1 /\ CallsOf("close") = 1
           /\ Last(calls) = "close" /\ session = "closed"

C38_Witness ==
    /\ ExecuteReturned /\ ret = Failure(ERR_FLOW)
    /\ "nonce" \in Range(calls) /\ Last(calls) = "close" /\ session = "closed"

(***************************************************************************)
(* benchmark_hps alone                                                     *)
(***************************************************************************)
\* the hashes one round can count
Counts == 0 .. MaxCount

\* one round of the for loop: hashes counted, time elapsed, rate appended
BenchRound ==
    /\ bpc = "rounds" /\ Len(samples) < BENCH_ROUNDS
    /\ \E count \in Counts, elapsed \in ElapsedValues :
        samples' = Append(samples, RateOf(count, elapsed))
    /\ UNCHANGED <<bpc, final_hps>>
    /\ UNCHANGED <<mainVars, execVars, solverVars, bitsVars, harvestVars, pairVars,
                   digestVars, runVars, cdkVars, readVars>>

\* final_hps = round(statistics.median(samples)); return final_hps
BenchReturn ==
    /\ bpc = "rounds" /\ Len(samples) = BENCH_ROUNDS
    /\ final_hps' = Median(samples)
    /\ bpc' = "done"
    /\ UNCHANGED samples
    /\ UNCHANGED <<mainVars, execVars, solverVars, bitsVars, harvestVars, pairVars,
                   digestVars, runVars, cdkVars, readVars>>

InitBench ==
    /\ MainOff
    /\ ExecIdle
    /\ SolverIdle([p \in Prefixes |-> EasyTable])
    /\ BitsIdle
    /\ HarvestIdle
    /\ PairIdle /\ DigestIdle /\ RunsIdle
    /\ CdkIdle /\ ReadIdle
    /\ bpc = "rounds" /\ samples = <<>> /\ final_hps = NoInt

NextBench == BenchRound \/ BenchReturn

SpecBench == InitBench /\ [][NextBench]_vars

\* the rounds whose rate is at most r, at least r, positive
AtMost(r) == {i \in DOMAIN samples : samples[i] <= r}
AtLeast(r) == {i \in DOMAIN samples : samples[i] >= r}
PositiveRounds == {i \in DOMAIN samples : samples[i] > 0}

\* C32: benchmark_hps returns the median of its 3 round rates: the result is
\* one of the rates, with two rounds at or below it and two at or above it,
\* whatever the third round measured; it is positive whenever at least two
\* rounds measured a positive rate, and it is never negative.
C32_MedianOfThree ==
    bpc = "done" =>
        /\ Len(samples) = 3
        /\ \E i \in DOMAIN samples : final_hps = samples[i]
        /\ Cardinality(AtMost(final_hps)) >= 2
        /\ Cardinality(AtLeast(final_hps)) >= 2
        /\ Cardinality(PositiveRounds) >= 2 => final_hps > 0
        /\ final_hps >= 0

\* two fast rounds and one round that measured nothing
C32_Witness ==
    /\ bpc = "done" /\ Cardinality(PositiveRounds) = 2
    /\ samples[2] = 0 /\ samples[1] # samples[3]
    /\ final_hps > 0 /\ final_hps = IF samples[1] < samples[3] THEN samples[1] ELSE samples[3]

(***************************************************************************)
(* get_b4u_cdk without a clearance cookie                                  *)
(***************************************************************************)
\* get_cf_clearance raised, or delivered no cf_clearance cookie
B4uNoClearance == provider = "b4u" /\ hcf \in {"exc", "none", "nocf"}

\* C35: in get_b4u_cdk, when the session collaborator raises or returns no
\* cf_clearance cookie, the generator yields exactly one failure item, sends
\* neither the status request nor a draw request, and does not call the
\* collaborator a second time.
C35_NoClearanceStops ==
    B4uNoClearance =>
        /\ Len(yielded) = 1 /\ ~yielded[1].ok
        /\ status_calls = 0 /\ draws = 0 /\ resp_log = <<>>
        /\ cf_calls = 1 /\ hsession = "none"
        /\ hpc \in {"suspended", "done"}

C35_Witness ==
    B4uNoClearance /\ hcf = "nocf" /\ hpc = "done" /\ yielded = <<FailItem("no_cf")>>

(***************************************************************************)
(* get_x666_cdk                                                            *)
(***************************************************************************)
\* where the access_token comes from: the account config, the automatic
\* login (which may deliver None), or nowhere
TokenSources == {"configured", "login", "login_failed", "no_account"}

\* GET /api/checkin/status: an exception, a status other than 200, an
\* unparseable body, or a JSON object
XStatus(kind, success, can_spin, today) ==
    [kind |-> kind, success |-> success, can_spin |-> can_spin, today |-> today]
X666StatusResponses ==
    {XStatus(k, FALSE, FALSE, Absent) : k \in {"exc", "http", "null"}}
    \cup {XStatus("json", s, c, t) : s \in BOOLEAN, c \in BOOLEAN, t \in {Absent, "map"}}

\* POST /api/checkin/spin; "yi qiandao" stands for a message with the
\* characters of 'already signed in' in it
X666SpinResponses ==
    {WExc, WHttp, WNull, WJson(TRUE, "", NoVal(Absent), "")}
    \cup {WJson(FALSE, "", NoVal(Absent), m) : m \in {"Already spun", "yi qiandao", "Server busy"}}

\* "already" in message.lower() or the characters of 'already signed in' in message
X666AlreadySpun(message) == "already" \in Patterns(message) \/ message = "yi qiandao"

X666Start ==
    /\ provider = "x666" /\ hpc = "start"
    /\ \E t \in TokenSources :
        /\ htoken' = t
        /\ IF t = "no_account"
           THEN Yield(FailItem("no_token_source"), "return") /\ UNCHANGED hsession
           ELSE IF t = "login_failed"
           THEN Yield(FailItem("login_failed"), "return") /\ UNCHANGED hsession
           ELSE Goto("status") /\ hsession' = "open"
    /\ UNCHANGED <<provider, hcookies, remaining, draw_count, seeded, seed, stage_mark,
                   draws, resp_log, cf_calls, status_calls>>
    /\ UNCHANGED <<hcf, hstatus, otherVars>>

X666Status ==
    /\ provider = "x666" /\ hpc = "status"
    /\ status_calls' = status_calls + 1
    /\ \E r \in X666StatusResponses :
        /\ hstatus' = r
        /\ IF r.kind = "exc" THEN RaiseToExcept
           ELSE IF r.kind = "http"
           THEN Yield(FailItem("status_http"), "return") /\ UNCHANGED hsession
           ELSE IF r.kind = "null" \/ ~r.success
           THEN Yield(FailItem("status_failed"), "return") /\ UNCHANGED hsession
           ELSE IF r.can_spin THEN Goto("spin") /\ UNCHANGED hsession
           ELSE IF r.today = Absent
           THEN \* today_record.get on None
                RaiseToExcept
           ELSE Yield(CodeItem(""), "return") /\ UNCHANGED hsession
    /\ UNCHANGED <<provider, hcookies, remaining, draw_count, seeded, seed, stage_mark,
                   draws, resp_log, cf_calls>>
    /\ UNCHANGED <<hcf, htoken, otherVars>>

X666Spin ==
    /\ provider = "x666" /\ hpc = "spin"
    /\ draws' = draws + 1
    /\ \E r \in X666SpinResponses :
        /\ resp_log' = Append(resp_log, r)
        /\ IF r.kind = "exc" THEN RaiseToExcept
           ELSE IF r.kind = "http"
           THEN Yield(FailItem("spin_http"), "return") /\ UNCHANGED hsession
           ELSE IF r.kind = "null"
           THEN \* if json_data is None: return
                /\ hsession' = "closed"
                /\ Goto("done")
           ELSE IF r.success \/ X666AlreadySpun(r.message)
           THEN Yield(CodeItem(""), "return") /\ UNCHANGED hsession
           ELSE Yield(FailItem("spin_failed"), "return") /\ UNCHANGED hsession
    /\ UNCHANGED <<provider, hcookies, remaining, draw_count, seeded, seed, stage_mark,
                   cf_calls, status_calls>>
    /\ UNCHANGED <<cdkVars, otherVars>>

(***************************************************************************)
(* Specification of a run of any of the three CDK generators               *)
(***************************************************************************)
InitCdk ==
    /\ MainOff
    /\ ExecIdle
    /\ SolverIdle([p \in Prefixes |-> EasyTable])
    /\ BitsIdle
    /\ provider \in Providers \cup {"x666"}
    /\ hcookies \in BOOLEAN
    /\ hpc = "start" /\ after_yield = "none"
    /\ hsession = "none" /\ remaining = 0 /\ draw_count = 0 /\ yielded = <<>>
    /\ seeded = FALSE /\ seed = 0 /\ stage_mark = 0 /\ draws = 0 /\ resp_log = <<>>
    /\ cf_calls = 0 /\ status_calls = 0
    /\ PairIdle /\ DigestIdle /\ RunsIdle /\ LateIdle

NextCdk ==
    \/ NextHarvest
    \/ X666Start
    \/ X666Status
    \/ X666Spin

SpecCdk == InitCdk /\ [][NextCdk]_vars

\* the last item the generator yielded is a failure item
FailureYielded == yielded # <<>> /\ ~Last(yielded).ok

\* C33: in each CDK generator (get_runawaytime_cdk, get_x666_cdk,
\* get_b4u_cdk) a failure item is the last item yielded: at most one failure
\* item is yielded per run, and after it the generator sends no further
\* request and yields nothing more.
C33_FailureItemIsLast ==
    /\ [](\A i \in DOMAIN yielded : ~yielded[i].ok => i = Len(yielded))
    /\ [][FailureYielded =>
              /\ yielded' = yielded
              /\ draws' = draws /\ status_calls' = status_calls /\ cf_calls' = cf_calls
              /\ resp_log' = resp_log]_vars

C33_Witness ==
    /\ hpc = "done" /\ provider = "b4u" /\ draws = 2
    /\ Len(yielded) = 2 /\ yielded[1].ok /\ yielded[2] = FailItem("draw_failed")

\* the status response of get_x666_cdk said that no spin is left today
X666CannotSpin ==
    /\ provider = "x666" /\ status_calls > 0
    /\ hstatus.kind = "json" /\ hstatus.success /\ ~hstatus.can_spin

\* C34: every run of get_x666_cdk yields exactly one item on every path
\* (missing token, status failure, already spun, spin success, spin failure,
\* unparseable spin response, exception), and the spin request is never sent
\* when the status reports can_spin = false.
C34_ExactlyOneItem ==
    /\ X666CannotSpin => draws = 0
    /\ (provider = "x666" /\ hpc = "done") => Len(yielded) = 1

(***************************************************************************)
(* LinuxDoReadPosts._read_posts_sequential, with _load_topic_id and        *)
(* _save_topic_id                                                          *)
(***************************************************************************)
\* the cache file is missing or empty (NoInt) or holds the id a former run saved
FileContents == {NoInt, 0, 2, 4}
BaseTopics == {1, 3}
\* random.randint(1, 5) and random.randint(50, 100): both ends of each range
Steps == {1, 5}
Jumps == {50, 100}
\* if invalid_count >= 5
InvalidLimit == 5

\* max(base_topic_id, cached_topic_id)
StartTopic_Mut(base, cached) == base

StartTopic(base, cached) == IF base >= cached THEN base ELSE cached

\* cached_topic_id = self._load_topic_id(): the file's integer, or 0 when the
\* file is missing or empty or when reading it raises IOError
ReadLoad ==
    /\ rpc = "start"
    /\ \E r \in {"read", "io_error"} :
        /\ load_ok' = (r = "read")
        /\ LET loaded == IF r = "read" /\ topic_file # NoInt THEN topic_file ELSE 0
           IN  /\ cached_topic_id' = loaded
               /\ current_topic_id' = StartTopic(base_topic_id, loaded)
    /\ read_count' = 0 /\ invalid_count' = 0
    /\ rpc' = "loop"
    /\ UNCHANGED <<topic_file, entry_file, base_topic_id, max_posts, save_calls>>
    /\ UNCHANGED <<mainVars, execVars, solverVars, bitsVars, harvestVars, pairVars,
                   digestVars, runVars, cdkVars, benchVars>>

\* one iteration of 'while read_count < max_posts'
ReadStep ==
    /\ rpc = "loop" /\ read_count < max_posts
    /\ \E inc \in (IF invalid_count >= InvalidLimit THEN Jumps ELSE Steps),
          outcome \in {"read", "invalid", "goto_raised", "scroll_raised", "wait_raised"} :
        /\ current_topic_id + inc <= MaxTopic
        /\ current_topic_id' = current_topic_id + inc
        /\ LET after_jump == IF invalid_count >= InvalidLimit THEN 0 ELSE invalid_count
           IN  CASE outcome = "read" ->
                        invalid_count' = 0 /\ read_count' = read_count + 1
                 [] outcome \in {"invalid", "goto_raised"} ->
                        invalid_count' = after_jump + 1 /\ UNCHANGED read_count
                 [] outcome = "scroll_raised" ->
                        invalid_count' = 1 /\ UNCHANGED read_count
                 [] outcome = "wait_raised" ->
                        invalid_count' = 1 /\ read_count' = read_count + 1
    /\ UNCHANGED <<rpc, topic_file, entry_file, load_ok, base_topic_id, max_posts,
                   cached_topic_id, save_calls>>
    /\ UNCHANGED <<mainVars, execVars, solverVars, bitsVars, harvestVars, pairVars,
                   digestVars, runVars, cdkVars, benchVars>>

\* self._save_topic_id(current_topic_id) after the loop: open(..., "w")
\* truncates the file before the write; an IOError is logged and swallowed
ReadSave ==
    /\ rpc = "loop" /\ ~(read_count < max_posts)
    /\ \E r \in {"written", "open_failed", "write_failed"} :
        /\ save_calls' = Append(save_calls, [topic_id |-> current_topic_id, result |-> r])
        /\ topic_file' = CASE r = "written" -> current_topic_id
                           [] r = "open_failed" -> topic_file
                           [] r = "write_failed" -> NoInt
    /\ rpc' = "done"
    /\ UNCHANGED <<entry_file, load_ok, base_topic_id, max_posts, cached_topic_id,
                   current_topic_id, read_count, invalid_count>>
    /\ UNCHANGED <<mainVars, execVars, solverVars, bitsVars, harvestVars, pairVars,
                   digestVars, runVars, cdkVars, benchVars>>

InitRead ==
    /\ MainOff
    /\ ExecIdle
    /\ SolverIdle([p \in Prefixes |-> EasyTable])
    /\ BitsIdle
    /\ HarvestIdle
    /\ PairIdle /\ DigestIdle /\ RunsIdle /\ CdkIdle /\ BenchIdle
    /\ rpc = "start"
    /\ topic_file \in FileContents /\ entry_file = topic_file
    /\ base_topic_id \in BaseTopics /\ max_posts \in 1 .. MaxPosts
    /\ load_ok = TRUE /\ cached_topic_id = 0 /\ current_topic_id = 0
    /\ read_count = 0 /\ invalid_count = 0 /\ save_calls = <<>>

NextRead ==
    \/ ReadLoad
    \/ ReadStep
    \/ ReadSave

SpecRead == InitRead /\ [][NextRead]_vars

\* _read_posts_sequential has returned
ReadReturned == rpc = "done"

\* a loop iteration has just run: each one changes read_count or invalid_count
ReadIterated == rpc = "loop" /\ <<read_count, invalid_count>>' # <<read_count, invalid_count>>

Interrupt ==
    /\ mpc = "loop" /\ epc # "idle"
    /\ epc' = "interrupted"
    /\ IF session = "open"
       THEN session' = "closed" /\ calls' = Append(calls, "close")
       ELSE UNCHANGED <<session, calls>>
    /\ spc' = "idle"
    /\ exit_code' = 1
    /\ mpc' = "exited"
    /\ UNCHANGED <<sids, tier, idx, success_count, notification_content, current_info,
                   last_hash, stored_hash, pushed, events, main_ret, processed>>
    /\ UNCHANGED <<cf, me_resp, me_data, hps, challenge_data, submit_data, chal_req,
                   submit_req, chal_resp, submit_resp, ret>>
    /\ UNCHANGED <<H, sprefix, sdiff, nonce, solve_ret>>
    /\ UNCHANGED <<bitsVars, harvestVars, pairVars, digestVars, runVars, lateVars>>

NextInterrupt ==
    \/ Next
    \/ Interrupt

SpecInterrupt == Init /\ [][NextInterrupt]_vars

\* the run was interrupted while account idx + 1 was being processed
Interrupted == mpc = "exited" /\ epc = "interrupted"

\* C31: when an external interrupt arrives while account i is being
\* processed, accounts i+1..N are not processed, the process exits with a
\* non-zero status, and account i and the accounts already completed are
\* still reported, account i as a failure.
C31_InterruptedAccountsReported ==
    Interrupted =>
        /\ CountOf("account") = idx + 1
        /\ Len(processed) = idx
        /\ exit_code > 0
        /\ pushed # <<>>
        /\ Len(ReportLines(notification_content)) = idx + 1
        /\ Last(ReportLines(notification_content)).account = idx + 1
        /\ Last(ReportLines(notification_content)).kind \in {"error", "exception"}

====
